---- MODULE Spec2Model ----
(***************************************************************************)
(* A model of the devassist agent framework: the bounded volatile store    *)
(* (ShortTermMemory), the thought/action/observation loop (ReactAgent,     *)
(* ToolAgent), the task router (ToolAgent._decide_action), the tool        *)
(* registry (ToolCollection) and the complexity-gated dispatcher           *)
(* (HybridAgent).  Every subsystem has its own specification over its own  *)
(* variables; the variables of the other subsystems stay as constructed.   *)
(***************************************************************************)
EXTENDS Integers, Sequences, FiniteSets, TLC

(***************************************************************************)
(* Bounds of the model.                                                    *)
(***************************************************************************)
MaxAdds == 3
MaxTime == 2
MaxCapacity == 2
MaxTtl == 1
MaxLimit == 1
MaxIterations == 2
MaxTools == 2
MaxHybridIterations == 1
MaxLtmCalls == 2
MaxLtmTime == 1
MaxLtmLimit == 2
MaxPerCategory == 1
MaxPlanSteps == 3
MaxDeps == 2
MaxCompleted == 2
MaxModels == 3

(***************************************************************************)
(* ShortTermMemory (src/devassist/core/memory/short_term.py).              *)
(*                                                                         *)
(* items is a Python dict, which keeps insertion order: a sequence of      *)
(* [id, item] pairs.  access_times and creation_times are dicts read only  *)
(* by key: functions.  lru_queue is a heapq list of (time, identifier)     *)
(* tuples; the only thing read from it is its least tuple, so it is kept   *)
(* as the sequence of its tuples.  now is the value time.time() returns;   *)
(* one call reads the clock once: the clock moves between calls (Tick).    *)
(* An identifier is a uuid4 string: the k-th one handed out is the number  *)
(* k, and how two uuid4 strings compare is not determined (uuid4 is        *)
(* random), so among tuples of equal time heappop may return any (first).  *)
(* Every method is an operator from the store (and the clock) to the store *)
(* it leaves and the value it returns; the action of the method applies    *)
(* it.  born, gone and evicted are history variables: the creation time of *)
(* every identifier handed out and not in gone, the identifiers removed by *)
(* a delete, an eviction or a clear (the others that left expired), and    *)
(* the identifiers removed by an eviction.                                 *)
(***************************************************************************)
VARIABLES items, access_times, creation_times, lru_queue, capacity, ttl,
          now, born, gone, evicted

stmVars == <<items, access_times, creation_times, lru_queue, capacity, ttl,
             now, born, gone, evicted>>

\* The identifiers handed out so far.
used == DOMAIN born \cup gone

Names == {"a", "b"}
Items == [name : Names]
None == [none |-> TRUE]

\* The queries of search: no field, a field of the item, a field it lacks.
Queries == {"any", "name_a", "name_b", "tag_x"}
QueryFields(q) == IF q = "any" THEN {} ELSE IF q = "tag_x" THEN {"tag"} ELSE {"name"}
QueryValue(q) == IF q = "name_a" THEN "a" ELSE IF q = "name_b" THEN "b" ELSE "x"

Keys(d) == {d[i].id : i \in 1..Len(d)}
Lookup(d, identifier) == (CHOOSE i \in 1..Len(d) : d[i].id = identifier)
ItemOf(d, identifier) == d[Lookup(d, identifier)].item
Restrict(f, S) == [x \in S |-> f[x]]
RemoveAt(q, i) == SubSeq(q, 1, i - 1) \o SubSeq(q, i + 1, Len(q))

\* The tuples heappop may return: those of the least time.
LeastTuples(q) == {i \in 1..Len(q) : \A j \in 1..Len(q) : q[i][1] <= q[j][1]}
\* heappop: of the least tuples, the one of identifier first if there is one.
HeapMin(q, first) ==
    IF \E i \in LeastTuples(q) : q[i][2] = first
    THEN CHOOSE i \in LeastTuples(q) : q[i][2] = first
    ELSE CHOOSE i \in LeastTuples(q) : TRUE

\* The four structures of the store, as one value.
Store == [items |-> items, access_times |-> access_times,
          creation_times |-> creation_times, lru_queue |-> lru_queue]

\* A delete that leaves the queue as it is.
DeleteKeepsQueue(s, identifier) ==
    IF identifier \notin Keys(s.items) THEN [store |-> s, value |-> FALSE]
    ELSE [store |-> [items |-> SelectSeq(s.items, LAMBDA e : e.id # identifier),
                     access_times |-> Restrict(s.access_times, DOMAIN s.access_times \ {identifier}),
                     creation_times |-> Restrict(s.creation_times, DOMAIN s.creation_times \ {identifier}),
                     lru_queue |-> s.lru_queue],
          value |-> TRUE]

\* ShortTermMemory.delete(identifier).
delete(s, identifier) ==
    IF identifier \notin Keys(s.items) THEN [store |-> s, value |-> FALSE]
    ELSE LET its == SelectSeq(s.items, LAMBDA e : e.id # identifier)
         IN  [store |-> [items |-> its,
                         access_times |-> Restrict(s.access_times, DOMAIN s.access_times \ {identifier}),
                         creation_times |-> Restrict(s.creation_times, DOMAIN s.creation_times \ {identifier}),
                         lru_queue |-> SelectSeq(s.lru_queue, LAMBDA e : e[2] \in Keys(its))],
              value |-> TRUE]

\* ShortTermMemory._prune_expired at clock value t.
RECURSIVE DeleteAll(_, _)
DeleteAll(s, S) ==
    IF S = {} THEN s
    ELSE LET x == CHOOSE y \in S : TRUE
         IN  DeleteAll(delete(s, x).store, S \ {x})
ExpiredSinceAccess(s, t) == {i \in DOMAIN s.creation_times : t - s.access_times[i] > ttl}
Expired(s, t) == {i \in DOMAIN s.creation_times : t - s.creation_times[i] > ttl}
_prune_expired(s, t) == DeleteAll(s, Expired(s, t))

\* ShortTermMemory._evict_lru: pop until a live identifier comes up, delete it.
EvictPopOnly(s, first) ==
    IF Len(s.lru_queue) = 0 THEN s
    ELSE [s EXCEPT !.lru_queue = RemoveAt(s.lru_queue, HeapMin(s.lru_queue, first))]
\* An eviction of the entry read least recently, the newest of such entries.
EvictLeastRecentlyRead(s, first) ==
    IF Len(s.items) = 0 THEN s
    ELSE delete(s, CHOOSE x \in Keys(s.items) :
                     \A y \in Keys(s.items) :
                         \/ s.access_times[x] < s.access_times[y]
                         \/ s.access_times[x] = s.access_times[y] /\ x >= y).store

RECURSIVE _evict_lru(_, _)
_evict_lru(s, first) ==
    IF Len(s.lru_queue) = 0 THEN s
    ELSE LET i == HeapMin(s.lru_queue, first)
             identifier == s.lru_queue[i][2]
             popped == [s EXCEPT !.lru_queue = RemoveAt(s.lru_queue, i)]
         IN  IF identifier \notin Keys(s.items) THEN _evict_lru(popped, first)
             ELSE delete(popped, identifier).store

\* ShortTermMemory.add(item) at clock value t; value is the new identifier.
add(s, item, first, t) ==
    LET pruned == _prune_expired(s, t)
        identifier == Cardinality(used) + 1
        current_time == t
        inserted == [items |-> Append(pruned.items, [id |-> identifier, item |-> item]),
                     access_times |-> (identifier :> current_time) @@ pruned.access_times,
                     creation_times |-> (identifier :> current_time) @@ pruned.creation_times,
                     lru_queue |-> Append(pruned.lru_queue, <<current_time, identifier>>)]
        over == Len(inserted.items) > capacity
        final == IF over THEN _evict_lru(inserted, first) ELSE inserted
    IN  [store |-> final, value |-> identifier, inserted |-> inserted, over |-> over]

\* ShortTermMemory.get(identifier) at clock value t.
get(s, identifier, t) ==
    LET pruned == _prune_expired(s, t)
    IN  IF identifier \notin Keys(pruned.items) THEN [store |-> pruned, value |-> None]
        ELSE [store |-> [pruned EXCEPT !.access_times[identifier] = t],
              value |-> ItemOf(pruned.items, identifier)]

\* list.sort(key=created_at, reverse=True): stable, equal keys keep their order.
RECURSIVE SortByCreatedDesc(_, _)
SortByCreatedDesc(r, ct) ==
    IF Len(r) <= 1 THEN r
    ELSE LET sorted == SortByCreatedDesc(SubSeq(r, 1, Len(r) - 1), ct)
             x == r[Len(r)]
             k == Cardinality({i \in 1..Len(sorted) : ct[sorted[i]] >= ct[x]})
         IN  SubSeq(sorted, 1, k) \o <<x>> \o SubSeq(sorted, k + 1, Len(sorted))

\* The test of search's inner loop: every field of the query is in the item, equal.
IsMatch(item, q) ==
    \A key \in QueryFields(q) : key \in DOMAIN item /\ item[key] = QueryValue(q)

\* search's loop over items from position i on: the identifiers appended to results.
RECURSIVE SearchLoop(_, _, _, _, _)
SearchLoop(its, i, q, limit, results) ==
    IF i > Len(its) THEN results
    ELSE IF IsMatch(its[i].item, q)
         THEN LET r == Append(results, its[i].id)
              IN  IF Len(r) >= limit THEN r ELSE SearchLoop(its, i + 1, q, limit, r)
         ELSE SearchLoop(its, i + 1, q, limit, results)

\* ShortTermMemory.search(query, limit) at clock value t; value is the identifiers
\* of the results, in the order returned.
search(s, q, limit, t) ==
    LET pruned == _prune_expired(s, t)
        results == SearchLoop(pruned.items, 1, q, limit, <<>>)
        hit == {results[i] : i \in 1..Len(results)}
    IN  [store |-> [pruned EXCEPT !.access_times =
                      [x \in DOMAIN pruned.access_times |->
                         IF x \in hit THEN t ELSE pruned.access_times[x]]],
         value |-> SortByCreatedDesc(results, pruned.creation_times)]

\* ShortTermMemory.update(identifier, item) at clock value t.
update(s, identifier, item, t) ==
    LET pruned == _prune_expired(s, t)
    IN  IF identifier \notin Keys(pruned.items) THEN [store |-> pruned, value |-> FALSE]
        ELSE [store |-> [pruned EXCEPT !.items[Lookup(pruned.items, identifier)].item = item,
                                       !.access_times[identifier] = t],
              value |-> TRUE]

\* ShortTermMemory.clear().
clear(s) == [items |-> <<>>, access_times |-> <<>>, creation_times |-> <<>>, lru_queue |-> <<>>]

\* ShortTermMemory.get_stats(): the current_size it reports.
get_stats(s) == [capacity |-> capacity, ttl |-> ttl, current_size |-> Len(s.items)]

SetStore(s) ==
    /\ items' = s.items
    /\ access_times' = s.access_times
    /\ creation_times' = s.creation_times
    /\ lru_queue' = s.lru_queue

\* ShortTermMemory(capacity=c, ttl=t), constructed at clock value 0.
StmConstructed(c, t) ==
    /\ items = <<>>
    /\ access_times = <<>>
    /\ creation_times = <<>>
    /\ lru_queue = <<>>
    /\ capacity = c
    /\ ttl = t
    /\ now = 0
    /\ born = <<>>
    /\ gone = {}
    /\ evicted = {}

StmInit == \E c \in 1..MaxCapacity, t \in 0..MaxTtl : StmConstructed(c, t)
\* The store with the defaults of __init__, for the specifications that leave it alone.
StmIdle == StmConstructed(1000, 3600)

\* The clock moves on between two calls.
Tick ==
    /\ now < MaxTime
    /\ now' = now + 1
    /\ UNCHANGED <<items, access_times, creation_times, lru_queue, capacity, ttl, born, gone, evicted>>

\* The identifiers heappop may return first from queue q.
Firsts(q) == {q[j][2] : j \in LeastTuples(q)}

Add ==
    /\ Cardinality(used) < MaxAdds
    /\ \E item \in Items :
         \E first \in Firsts(add(Store, item, 0, now).inserted.lru_queue) :
           LET r == add(Store, item, first, now)
               out == Keys(r.inserted.items) \ Keys(r.store.items)
           IN  /\ SetStore(r.store)
               /\ born' = Restrict((r.value :> now) @@ born, (DOMAIN born \cup {r.value}) \ out)
               /\ gone' = gone \cup out
               /\ evicted' = evicted \cup out
    /\ UNCHANGED <<capacity, ttl, now>>

Get ==
    /\ \E identifier \in used : SetStore(get(Store, identifier, now).store)
    /\ UNCHANGED <<capacity, ttl, now, born, gone, evicted>>

Search ==
    /\ \E q \in Queries, limit \in 0..MaxLimit : SetStore(search(Store, q, limit, now).store)
    /\ UNCHANGED <<capacity, ttl, now, born, gone, evicted>>

Update ==
    /\ \E identifier \in used, item \in Items : SetStore(update(Store, identifier, item, now).store)
    /\ UNCHANGED <<capacity, ttl, now, born, gone, evicted>>

Delete ==
    /\ \E identifier \in used :
         /\ SetStore(delete(Store, identifier).store)
         /\ gone' = IF delete(Store, identifier).value THEN gone \cup {identifier} ELSE gone
         /\ born' = IF delete(Store, identifier).value
                    THEN Restrict(born, DOMAIN born \ {identifier}) ELSE born
    /\ UNCHANGED <<capacity, ttl, now, evicted>>

Clear ==
    /\ SetStore(clear(Store))
    /\ gone' = gone \cup Keys(items)
    /\ born' = Restrict(born, DOMAIN born \ Keys(items))
    /\ UNCHANGED <<capacity, ttl, now, evicted>>

\* get_stats changes nothing: it is a read of the state, not a step.

(***************************************************************************)
(* The task router: ToolAgent._decide_action                               *)
(* (src/devassist/core/agent/tool_agent.py).                               *)
(*                                                                         *)
(* A task text is the sequence of its words, which single blanks separate. *)
(* A word is written as in the text, so that case is kept: LowerWord is    *)
(* str.lower() on one word.  No word of the vocabulary contains another,   *)
(* so a regular expression's literal matches a whole word.  A quoted       *)
(* literal ('foo') and a fenced code block (fenced:foo) are one word each.  *)
(* A pattern is the sequence of the ways its literal part can be read,     *)
(* in the order the regular expression tries them (an optional group       *)
(* first taken, then left out); each way is a sequence of word sets, and   *)
(* what follows it is the captured group.                                  *)
(***************************************************************************)
VARIABLES tools, task, route

routeVars == <<tools, task, route>>

ToolNames == {"calculator", "search", "text", "code", "api_endpoint", "react_component"}

\* str.lower() of a word: the words with an upper-case letter, and their lower case.
LowerWord(w) ==
    IF w = "CALCULATE" THEN "calculate"
    ELSE IF w = "Search" THEN "search"
    ELSE IF w = "Foo" THEN "foo"
    ELSE IF w = "'Foo'" THEN "'foo'"
    ELSE IF w = "Generate" THEN "generate"
    ELSE w
LowerIdentity(t) == t
Lower(t) == [k \in 1..Len(t) |-> LowerWord(t[k])]

IsQuoted(w) == LowerWord(w) \in {"'foo'"}
IsCodeBlock(w) == w \in {"fenced:foo"}

NoMatch == [matched |-> FALSE]

\* re.IGNORECASE: way a of a pattern reads the words of t from position i on.
ReadsAt(a, t, i) ==
    \A k \in 1..Len(a) : i + k - 1 <= Len(t) /\ LowerWord(t[i + k - 1]) \in a[k]

\* re.search of a pattern that ends in \s+(.+): the leftmost position where one
\* of its ways is followed by at least one word, the first such way there; the
\* group is the rest of the text.
SearchRest(p, t) ==
    LET hits == {i \in 1..Len(t) : \E n \in 1..Len(p) : ReadsAt(p[n], t, i) /\ i + Len(p[n]) <= Len(t)}
    IN  IF hits = {} THEN NoMatch
        ELSE LET i == CHOOSE x \in hits : \A y \in hits : x <= y
                 n == CHOOSE x \in 1..Len(p) :
                        /\ ReadsAt(p[x], t, i) /\ i + Len(p[x]) <= Len(t)
                        /\ \A y \in 1..(x - 1) : ~(ReadsAt(p[y], t, i) /\ i + Len(p[y]) <= Len(t))
             IN  [matched |-> TRUE, group |-> SubSeq(t, i + Len(p[n]), Len(t))]

\* re.search of a pattern that ends in a quoted (.+): the literal part, then a
\* word that opens a quote; the group runs to the last closing quote of the text.
SearchQuoted(a, t) ==
    LET hits == {i \in 1..Len(t) : ReadsAt(a, t, i) /\ i + Len(a) <= Len(t) /\ IsQuoted(t[i + Len(a)])}
    IN  IF hits = {} THEN NoMatch
        ELSE LET i == CHOOSE x \in hits : \A y \in hits : x <= y
                 j == CHOOSE x \in (i + Len(a))..Len(t) :
                        IsQuoted(t[x]) /\ \A y \in (x + 1)..Len(t) : ~IsQuoted(t[y])
             IN  [matched |-> TRUE, group |-> <<"unquoted">> \o SubSeq(t, i + Len(a), j)]

\* re.search of a pattern that ends in a fenced (.+?): the literal
\* part, then a fenced block; the group is what the first block holds.
SearchFenced(a, t) ==
    LET hits == {i \in 1..Len(t) : ReadsAt(a, t, i) /\ i + Len(a) <= Len(t) /\ IsCodeBlock(t[i + Len(a)])}
    IN  IF hits = {} THEN NoMatch
        ELSE LET i == CHOOSE x \in hits : \A y \in hits : x <= y
             IN  [matched |-> TRUE, group |-> <<"unfenced", t[i + Len(a)]>>]

calc_pattern == << <<{"calculate"}>> >>

search_patterns == <<
    << <<{"search"}, {"for"}>>, <<{"search"}>> >>,
    << <<{"find"}, {"information"}, {"about"}>>, <<{"find"}, {"information"}>>, <<{"find"}>> >>,
    << <<{"look"}, {"up"}>> >> >>

text_patterns == <<
    [way |-> <<{"count"}, {"characters"}, {"in"}>>, operation |-> "count"],
    [way |-> <<{"count"}, {"words"}, {"in"}>>, operation |-> "wordcount"],
    [way |-> <<{"reverse"}>>, operation |-> "reverse"],
    [way |-> <<{"uppercase"}>>, operation |-> "uppercase"],
    [way |-> <<{"lowercase"}>>, operation |-> "lowercase"],
    [way |-> <<{"capitalize"}>>, operation |-> "capitalize"] >>

code_patterns == << <<{"run"}, {"code"}>>, <<{"execute"}>>, <<{"evaluate"}>> >>

\* verb (an?)? api [endpoint] (for)? (.+), the optional groups taken first.
ApiWays(verb, nouns) ==
    << <<{verb}, {"a", "an"}>> \o nouns \o <<{"for"}>>,
       <<{verb}, {"a", "an"}>> \o nouns,
       <<{verb}>> \o nouns \o <<{"for"}>>,
       <<{verb}>> \o nouns >>
api_patterns == <<
    ApiWays("create", <<{"api"}, {"endpoint"}>>),
    ApiWays("generate", <<{"api"}>>),
    ApiWays("implement", <<{"api"}>>) >>

\* create (a)? react component (for)? (.+)
ReactCreateWays ==
    << <<{"create"}, {"a"}, {"react"}, {"component"}, {"for"}>>,
       <<{"create"}, {"a"}, {"react"}, {"component"}>>,
       <<{"create"}, {"react"}, {"component"}, {"for"}>>,
       <<{"create"}, {"react"}, {"component"}>> >>
\* verb (a)? react (component)? (for)? (.+)
ReactWays(verb) ==
    << <<{verb}, {"a"}, {"react"}, {"component"}, {"for"}>>,
       <<{verb}, {"a"}, {"react"}, {"component"}>>,
       <<{verb}, {"a"}, {"react"}, {"for"}>>,
       <<{verb}, {"a"}, {"react"}>>,
       <<{verb}, {"react"}, {"component"}, {"for"}>>,
       <<{verb}, {"react"}, {"component"}>>,
       <<{verb}, {"react"}, {"for"}>>,
       <<{verb}, {"react"}>> >>
react_patterns == << ReactCreateWays, ReactWays("generate"), ReactWays("implement") >>

\* The first pattern of a list that matches, or NoMatch: the for loops of the rules.
RECURSIVE FirstRest(_, _, _)
FirstRest(ps, t, n) ==
    IF n > Len(ps) THEN NoMatch
    ELSE IF SearchRest(ps[n], t).matched THEN SearchRest(ps[n], t)
    ELSE FirstRest(ps, t, n + 1)
RECURSIVE FirstQuoted(_, _, _)
FirstQuoted(ps, t, n) ==
    IF n > Len(ps) THEN NoMatch
    ELSE IF SearchQuoted(ps[n].way, t).matched
         THEN [matched |-> TRUE, group |-> SearchQuoted(ps[n].way, t).group, operation |-> ps[n].operation]
    ELSE FirstQuoted(ps, t, n + 1)
RECURSIVE FirstFenced(_, _, _)
FirstFenced(ps, t, n) ==
    IF n > Len(ps) THEN NoMatch
    ELSE IF SearchFenced(ps[n], t).matched THEN SearchFenced(ps[n], t)
    ELSE FirstFenced(ps, t, n + 1)

\* What rule g finds in the lower-cased text t.
RuleMatch(g, t) ==
    CASE g = "calculator" -> SearchRest(calc_pattern, t)
      [] g = "search" -> FirstRest(search_patterns, t, 1)
      [] g = "text" -> FirstQuoted(text_patterns, t, 1)
      [] g = "code" -> FirstFenced(code_patterns, t, 1)
      [] g = "api_endpoint" -> FirstRest(api_patterns, t, 1)
      [] g = "react_component" -> FirstRest(react_patterns, t, 1)

\* The tool input rule g builds from its match m.
RuleInput(g, m) ==
    CASE g = "calculator" -> [expression |-> m.group]
      [] g = "search" -> [query |-> m.group]
      [] g = "text" -> [text |-> m.group, operation |-> m.operation]
      [] g = "code" -> [code |-> m.group]
      [] g = "api_endpoint" -> [endpoint_name |-> m.group, http_method |-> "GET", framework |-> "express"]
      [] g = "react_component" -> [component_name |-> <<"PascalCase">> \o m.group,
                                   component_type |-> "functional", use_typescript |-> TRUE]

\* The order in which _decide_action tries its rules.
RuleOrderSearchFirst == <<"search", "calculator", "text", "code", "api_endpoint", "react_component">>
RuleOrder == <<"calculator", "search", "text", "code", "api_endpoint", "react_component">>

dummy_action(t) == [name |-> "dummy_action", input |-> [query |-> <<"Placeholder action for">> \o t]]

RECURSIVE TryRules(_, _, _)
TryRules(t, tls, n) ==
    IF n > Len(RuleOrder) THEN dummy_action(t)
    ELSE IF RuleMatch(RuleOrder[n], t).matched /\ RuleOrder[n] \in tls
         THEN [name |-> RuleOrder[n], input |-> RuleInput(RuleOrder[n], RuleMatch(RuleOrder[n], t))]
    ELSE TryRules(t, tls, n + 1)

\* ToolAgent._decide_action on the context of task tk with self.tools = tls.
_decide_action(tk, tls) == TryRules(Lower(tk), tls, 1)

\* The task texts the model routes.
Tasks == {
    <<"calculate", "2+2">>, <<"CALCULATE", "2+2">>, <<"calculate">>,
    <<"search", "for", "foo">>, <<"Search", "for", "Foo">>, <<"search", "for">>,
    <<"find", "information", "about", "foo">>, <<"find", "about", "foo">>, <<"look", "up", "foo">>,
    <<"search", "calculate", "foo">>, <<"calculate", "search", "for", "foo">>,
    <<"reverse", "'foo'">>, <<"reverse", "'Foo'">>, <<"count", "words", "in", "'foo'">>,
    <<"calculate", "reverse", "'foo'">>, <<"look", "up", "reverse", "'foo'">>,
    <<"execute", "fenced:foo">>, <<"run", "code", "fenced:foo">>, <<"calculate", "execute", "fenced:foo">>,
    <<"create", "an", "api", "endpoint", "for", "foo">>, <<"generate", "api", "foo">>,
    <<"Generate", "api", "for", "Foo">>, <<"generate", "api", "for">>,
    <<"create", "a", "react", "component", "for", "foo">>, <<"generate", "react", "component", "foo">>,
    <<"generate", "a", "react", "api", "foo">>, <<"generate", "api", "react", "foo">>,
    <<"generate", "react", "calculate", "foo">>, <<"find", "generate", "api", "foo">>,
    <<"hello", "foo">>, <<"hello", "Foo">>, <<"foo">> }

RouteInit ==
    /\ tools = {}
    /\ task = <<"foo">>
    /\ route = [called |-> FALSE]

\* ToolAgent.load_tool(tool_name): the import of devassist.tools.<tool_name> and
\* the construction of its class succeed or fail; a failure leaves tools as it is.
LoadTool ==
    /\ \E tool_name \in ToolNames \cup {"dummy_action"}, loaded \in BOOLEAN :
         tools' = IF loaded /\ tool_name \in ToolNames THEN tools \cup {tool_name} ELSE tools
    /\ UNCHANGED <<task, route>>

\* A caller picks the next task text.
SetTask ==
    /\ \E tk \in Tasks : task' = tk
    /\ route' = [called |-> FALSE]
    /\ UNCHANGED tools

\* A call of _decide_action for task: route keeps what it returned, and
\* the tools that were loaded then.
Decide ==
    /\ route' = [called |-> TRUE, tools |-> tools, action |-> _decide_action(task, tools)]
    /\ UNCHANGED <<tools, task>>

(***************************************************************************)
(* The agent loop: ReactAgent.execute (src/devassist/core/agent/           *)
(* react_agent.py) with the _decide_action and _execute_action of          *)
(* ToolAgent (src/devassist/core/agent/tool_agent.py).                     *)
(*                                                                         *)
(* pc is the position of execute: idle, loop (at the while test), done     *)
(* (returned) or raised (left by an exception).  custom says whether the   *)
(* agent is of a subclass that overrides _should_terminate; such a         *)
(* predicate may answer anything.  A value a tool returns is a record      *)
(* with its Python type; outcomes is a history variable: what the tool     *)
(* call of each iteration did; rerun is a history variable: whether the    *)
(* execute under way, or the last one, was called on an agent that had     *)
(* returned from an execute before.                                        *)
(***************************************************************************)
VARIABLES max_iterations, custom, pc, current_iteration, thoughts, actions,
          observations, outcomes, result, rerun

agentVars == <<max_iterations, custom, pc, current_iteration, thoughts, actions,
               observations, outcomes, result, rerun>>

\* The values a tool's execute may return: a value that is no dict, a dict
\* without a status, and dicts with a status.
Scalar == [type |-> "str", str |-> "4"]
ToolReturns == {
    Scalar,
    [type |-> "dict", answer |-> Scalar],
    [type |-> "dict", status |-> "success", result |-> Scalar],
    [type |-> "dict", status |-> "success"],
    [type |-> "dict", status |-> "error", error |-> "tool failed"] }
\* What a call of a tool's execute does: it raises, or it returns a value.
ToolOutcomes == {[raises |-> TRUE]} \cup {[raises |-> FALSE, value |-> v] : v \in ToolReturns}

IsDict(v) == v.type = "dict"
Has(v, key) == key \in DOMAIN v

\* The tools the callers of the agent load, and the tasks they run it on.
AgentTools == {"calculator", "search", "text"}
AgentTasks == {<<"calculate", "2+2">>, <<"Search", "for", "Foo">>, <<"hello", "foo">>}

\* ToolAgent._execute_action(action_name, action_input) with self.tools = tls:
\* outcome is what the tool's execute does if it is called, loads whether
\* load_tool(action_name) succeeds if it is called.  It returns the observation
\* and leaves the tools.
ExecuteActionNoCatch(action_name, tls, outcome, loads) ==
    IF action_name \in tls \/ loads
    THEN IF outcome.raises
         THEN [raised |-> TRUE, tools |-> IF loads THEN tls \cup {action_name} ELSE tls, how |-> "raised"]
         ELSE [raised |-> FALSE, tools |-> IF loads THEN tls \cup {action_name} ELSE tls, how |-> "returned",
               observation |-> IF IsDict(outcome.value) /\ Has(outcome.value, "status")
                               THEN outcome.value
                               ELSE [type |-> "dict", status |-> "success", result |-> outcome.value]]
    ELSE [raised |-> FALSE, tools |-> tls, how |-> "unknown",
          observation |-> [type |-> "dict", status |-> "error", error |-> "Unknown action or tool"]]
RECURSIVE _execute_action(_, _, _, _)
_execute_action(action_name, tls, outcome, loads) ==
    IF action_name \in tls
    THEN IF outcome.raises
         THEN [raised |-> FALSE, tools |-> tls, how |-> "raised",
               observation |-> [type |-> "dict", status |-> "error", error |-> "Error executing tool"]]
         ELSE [raised |-> FALSE, tools |-> tls, how |-> "returned",
               observation |-> IF IsDict(outcome.value) /\ Has(outcome.value, "status")
                               THEN outcome.value
                               ELSE [type |-> "dict", status |-> "success", result |-> outcome.value]]
    ELSE IF loads
         THEN _execute_action(action_name, tls \cup {action_name}, outcome, FALSE)
         ELSE [raised |-> FALSE, tools |-> tls, how |-> "unknown",
               observation |-> [type |-> "dict", status |-> "error", error |-> "Unknown action or tool"]]

\* A predicate that stops the loop after any iteration.
StopAtOnce(iteration, max) == TRUE

\* ReactAgent._should_terminate, as ReactAgent defines it.
_should_terminate(iteration, max) == iteration >= max - 1

\* The test of _generate_final_answer on the result of an observation: the code
\* compares the string "status" with the string "success".
ResultIsSuccess(r) == IsDict(r) /\ ("status" = "success")

GenericAnswer == [type |-> "str", str |-> "Task execution completed."]
\* str(result.get("result", "Task completed successfully"))
StrOfResult(r) ==
    IF Has(r, "result") THEN [type |-> "str", of |-> r.result]
    ELSE [type |-> "str", str |-> "Task completed successfully"]

\* ReactAgent._generate_final_answer on the observations from position i on.
RECURSIVE _generate_final_answer(_, _)
_generate_final_answer(obs, i) ==
    IF i > Len(obs) THEN GenericAnswer
    ELSE IF IsDict(obs[i]) /\ Has(obs[i], "result") /\ ResultIsSuccess(obs[i].result)
         THEN StrOfResult(obs[i].result)
    ELSE _generate_final_answer(obs, i + 1)

\* ReactAgent.__init__ / ToolAgent.__init__: nothing loaded, nothing run.
AgentConstructed(n, c) ==
    /\ max_iterations = n
    /\ custom = c
    /\ pc = "idle"
    /\ current_iteration = 0
    /\ thoughts = <<>>
    /\ actions = <<>>
    /\ observations = <<>>
    /\ outcomes = <<>>
    /\ result = [returned |-> FALSE]
    /\ rerun = FALSE

AgentInit == \E n \in 0..MaxIterations, c \in BOOLEAN : AgentConstructed(n, c)
\* The agent with the default max_iterations, for the specifications that leave it alone.
AgentIdle == AgentConstructed(10, FALSE)

\* load_tool between two calls of execute.
AgentLoadTool ==
    /\ pc \in {"idle", "done"}
    /\ \E tool_name \in AgentTools, loaded \in BOOLEAN :
         tools' = IF loaded THEN tools \cup {tool_name} ELSE tools
    /\ UNCHANGED <<task, route, agentVars>>

\* execute(task), up to the while loop: lines 42 to 53.
Execute ==
    /\ pc \in {"idle", "done"}
    /\ \E tk \in AgentTasks : task' = tk
    /\ pc' = "loop"
    /\ current_iteration' = 0
    /\ thoughts' = <<>>
    /\ actions' = <<>>
    /\ observations' = <<>>
    /\ outcomes' = <<>>
    /\ result' = [returned |-> FALSE]
    /\ rerun' = (pc = "done")
    /\ UNCHANGED <<tools, route, max_iterations, custom>>

\* One pass of the while loop: lines 56 to 88.  The tool's execute may do
\* anything in ToolOutcomes; load_tool, if _execute_action calls it, may
\* succeed for the name of a tool and fails for dummy_action, for which the
\* repository has no module.
Iterate ==
    /\ pc = "loop"
    /\ current_iteration < max_iterations
    /\ LET action == _decide_action(task, tools)
       IN  \E outcome \in ToolOutcomes, loads \in BOOLEAN, stop \in BOOLEAN :
             LET r == _execute_action(action.name, tools, outcome,
                                      loads /\ action.name \in ToolNames)
             IN  /\ custom \/ ~stop
                 /\ tools' = r.tools
                 /\ thoughts' = Append(thoughts, current_iteration)
                 /\ actions' = Append(actions, action)
                 /\ IF r.raised
                      THEN /\ pc' = "raised"
                           /\ UNCHANGED <<observations, outcomes, current_iteration>>
                      ELSE /\ observations' = Append(observations, r.observation)
                           /\ outcomes' = Append(outcomes, r.how)
                           /\ IF (IF custom THEN stop
                                  ELSE _should_terminate(current_iteration, max_iterations))
                                THEN pc' = "break" /\ UNCHANGED current_iteration
                                ELSE pc' = "loop" /\ current_iteration' = current_iteration + 1
    /\ UNCHANGED <<task, route, max_iterations, custom, result, rerun>>

\* After the loop: lines 90 to 102.
Finish ==
    /\ pc = "break" \/ (pc = "loop" /\ ~(current_iteration < max_iterations))
    /\ result' = [returned |-> TRUE, task |-> task,
                  answer |-> _generate_final_answer(observations, 1),
                  iterations |-> current_iteration + 1]
    /\ pc' = "done"
    /\ UNCHANGED <<tools, task, route, max_iterations, custom, current_iteration,
                   thoughts, actions, observations, outcomes, rerun>>

(***************************************************************************)
(* ToolCollection (src/devassist/tools/base/tool_collection.py).           *)
(*                                                                         *)
(* collection_tools is self.tools and tool_classes is self.tool_classes of *)
(* the collection: maps from names to tool instances and to tool classes.  *)
(* An instance is a record of its identity, its name attribute and whether *)
(* it has a validate_input method; made counts the instances created.      *)
(* What a constructor, an import, validate_input and execute do is not in  *)
(* the hands of the collection: each is an input of the operation.  A      *)
(* raise is the raise of an Exception.  last_call keeps the last call of   *)
(* execute_tool: what it was given, what the tool did and what came back.  *)
(***************************************************************************)
VARIABLES collection_tools, tool_classes, made, last_call

tcVars == <<collection_tools, tool_classes, made, last_call>>

CollectionNames == {"calculator", "database"}
InstanceNames == CollectionNames \cup {"database_schema"}
ToolClasses == [validates : BOOLEAN]

\* What the collection cannot decide when it resolves a name: whether the
\* constructor of a class raises, and what the import of a module finds.
Resolutions == [ctor : {"ok", "raises"}, found : {"tool", "none", "error"},
                name : InstanceNames, validates : BOOLEAN]
\* What validate_input does when it is called.
Validations == {"true", "false", "raises"}

Collection == [tools |-> collection_tools, tool_classes |-> tool_classes, made |-> made]

\* register_tool(tool): self.tools[tool.name] = tool.
register_tool(s, tool) ==
    [s EXCEPT !.tools = [n \in DOMAIN s.tools \cup {tool.name} |->
                           IF n = tool.name THEN tool ELSE s.tools[n]]]

\* register_tool_class(tool_class), under the name attribute of the class.
register_tool_class(s, name, class) ==
    [s EXCEPT !.tool_classes = [n \in DOMAIN s.tool_classes \cup {name} |->
                                  IF n = name THEN class ELSE s.tool_classes[n]]]

\* A new instance and the collection that has made it.
NewTool(s, name, validates) == [id |-> s.made + 1, name |-> name, validates |-> validates]
Made(s) == [s EXCEPT !.made = s.made + 1]

\* get_tool(name): the instance held, else an instance of the class held,
\* else what the import finds; None if there is none or something raises.
get_tool(s, name, how) ==
    IF name \in DOMAIN s.tools
    THEN [store |-> s, value |-> s.tools[name]]
    ELSE IF name \in DOMAIN s.tool_classes
    THEN IF how.ctor = "raises"
         THEN [store |-> s, value |-> None]
         ELSE LET tool == NewTool(s, name, s.tool_classes[name].validates)
              IN  [store |-> register_tool(Made(s), tool), value |-> tool]
    ELSE IF how.found = "tool"
    THEN LET tool == NewTool(s, how.name, how.validates)
         IN  [store |-> register_tool(Made(s), tool), value |-> tool]
    ELSE [store |-> s, value |-> None]

ToolNotFound == [type |-> "dict", status |-> "error", error |-> "Tool not found"]
InvalidInput == [type |-> "dict", status |-> "error", error |-> "Invalid input for tool"]
ErrorExecuting == [type |-> "dict", status |-> "error", error |-> "Error executing tool"]

\* The body of the try statement of execute_tool: whether it raises, whether
\* it has called the tool's execute, and the value it returns if it does not
\* raise.
TryExecute(tool, validate, outcome) ==
    IF tool.validates /\ validate = "raises"
    THEN [raises |-> TRUE, executed |-> FALSE]
    ELSE IF tool.validates /\ validate = "false"
    THEN [raises |-> FALSE, executed |-> FALSE, value |-> InvalidInput]
    ELSE IF outcome.raises
    THEN [raises |-> TRUE, executed |-> TRUE]
    ELSE [raises |-> FALSE, executed |-> TRUE,
          value |-> IF IsDict(outcome.value) /\ Has(outcome.value, "status")
                    THEN outcome.value
                    ELSE [type |-> "dict", status |-> "success", result |-> outcome.value]]

ExecuteToolNoCatch(s, name, how, validate, outcome) ==
    LET g == get_tool(s, name, how)
    IN  IF g.value = None
        THEN [store |-> g.store, tool |-> None, executed |-> FALSE, propagated |-> FALSE,
              value |-> ToolNotFound]
        ELSE LET b == TryExecute(g.value, validate, outcome)
             IN  [store |-> g.store, tool |-> g.value, executed |-> b.executed,
                  propagated |-> b.raises, value |-> IF b.raises THEN None ELSE b.value]

\* execute_tool(name, **kwargs).
execute_tool(s, name, how, validate, outcome) ==
    LET g == get_tool(s, name, how)
    IN  IF g.value = None
        THEN [store |-> g.store, tool |-> None, executed |-> FALSE, propagated |-> FALSE,
              value |-> ToolNotFound]
        ELSE LET b == TryExecute(g.value, validate, outcome)
             IN  [store |-> g.store, tool |-> g.value, executed |-> b.executed,
                  propagated |-> FALSE,
                  value |-> IF b.raises THEN ErrorExecuting ELSE b.value]

SetCollection(s) ==
    /\ collection_tools' = s.tools
    /\ tool_classes' = s.tool_classes
    /\ made' = s.made

\* ToolCollection.__init__.
ToolsInit ==
    /\ collection_tools = <<>>
    /\ tool_classes = <<>>
    /\ made = 0
    /\ last_call = [called |-> FALSE]

\* The inputs that a resolution of name, a validation by tool and an
\* execution consult: one value stands for those that are not consulted.
ResolutionsOf(s, name) ==
    IF name \in DOMAIN s.tools
    THEN {how \in Resolutions : how.ctor = "ok" /\ how.found = "none"
                                /\ how.name = name /\ ~how.validates}
    ELSE IF name \in DOMAIN s.tool_classes
    THEN {how \in Resolutions : how.found = "none" /\ how.name = name /\ ~how.validates}
    ELSE {how \in Resolutions : how.ctor = "ok" /\ (how.found # "tool" => how.name = name /\ ~how.validates)}
ValidationsOf(tool) == IF tool # None /\ tool.validates THEN Validations ELSE {"true"}
OutcomesOf(tool, validate) ==
    IF tool # None /\ validate = "true" THEN ToolOutcomes ELSE {[raises |-> TRUE]}

\* A caller makes an instance and registers it.
RegisterTool ==
    /\ made < MaxTools
    /\ \E name \in InstanceNames, validates \in BOOLEAN :
         SetCollection(register_tool(Made(Collection), NewTool(Collection, name, validates)))
    /\ UNCHANGED last_call

RegisterToolClass ==
    /\ \E name \in CollectionNames, class \in ToolClasses :
         SetCollection(register_tool_class(Collection, name, class))
    /\ UNCHANGED last_call

GetTool ==
    /\ \E name \in CollectionNames :
         \E how \in ResolutionsOf(Collection, name) :
           /\ get_tool(Collection, name, how).store.made <= MaxTools
           /\ SetCollection(get_tool(Collection, name, how).store)
    /\ UNCHANGED last_call

ExecuteTool ==
    /\ \E name \in CollectionNames :
         \E how \in ResolutionsOf(Collection, name) :
           LET tool == get_tool(Collection, name, how).value
           IN  \E validate \in ValidationsOf(tool) :
                 \E outcome \in OutcomesOf(tool, validate) :
                   LET r == execute_tool(Collection, name, how, validate, outcome)
                   IN  /\ r.store.made <= MaxTools
                       /\ SetCollection(r.store)
                       /\ last_call' = [called |-> TRUE, name |-> name,
                                        validate |-> validate, executed |-> r.executed,
                                        propagated |-> r.propagated, value |-> r.value]

(***************************************************************************)
(* HybridAgent (src/devassist/core/agent/hybrid_agent.py): a ToolAgent     *)
(* that runs a task on its own loop or on four role agents.                *)
(*                                                                         *)
(* The text of a task is the words of the task joined by blanks; the       *)
(* regular expressions of _assess_complexity are read on its characters.   *)
(* A score is counted in hundredths of a point, in exact arithmetic.       *)
(* dispatch keeps the last call of execute: its task, the mode it was      *)
(* given, if any, the score and the path taken; ran is the runs of the     *)
(* role agents in the last multi-agent execution, in the order made.       *)
(***************************************************************************)
VARIABLES mode, complexity_threshold, specialized_agents, dispatch, ran

hybridVars == <<mode, complexity_threshold, specialized_agents, dispatch, ran>>

RECURSIVE Text(_)
Text(t) == IF Len(t) = 0 THEN "" ELSE IF Len(t) = 1 THEN t[1] ELSE t[1] \o " " \o Text(Tail(t))

\* Whether the literal lit stands in text at position i.
LitAt(lit, text, i) == i + Len(lit) - 1 <= Len(text) /\ SubSeq(text, i, i + Len(lit) - 1) = lit

\* The position after the blanks that start at position i.
RECURSIVE SkipBlanks(_, _)
SkipBlanks(text, i) ==
    IF i <= Len(text) /\ SubSeq(text, i, i) = " " THEN SkipBlanks(text, i + 1) ELSE i

\* An alternative of a pattern is a sequence of literals with \s+ between
\* them.  EndAt is the position after its match at position i, 0 if none.
RECURSIVE EndAt(_, _, _)
EndAt(alt, text, i) ==
    IF ~LitAt(alt[1], text, i) THEN 0
    ELSE IF Len(alt) = 1 THEN i + Len(alt[1])
    ELSE IF SkipBlanks(text, i + Len(alt[1])) = i + Len(alt[1]) THEN 0
    ELSE EndAt(Tail(alt), text, SkipBlanks(text, i + Len(alt[1])))

\* The position after the match at i of the first alternative that has one.
RECURSIVE FirstEndAt(_, _, _)
FirstEndAt(p, text, i) ==
    IF Len(p) = 0 THEN 0
    ELSE LET e == EndAt(p[1], text, i)
         IN  IF e > 0 THEN e ELSE FirstEndAt(Tail(p), text, i)

\* len(re.findall(p, text)) from position i on.
RECURSIVE findall(_, _, _)
findall(p, text, i) ==
    IF i > Len(text) THEN 0
    ELSE LET e == FirstEndAt(p, text, i)
         IN  IF e > 0 THEN 1 + findall(p, text, e) ELSE findall(p, text, i + 1)

\* The alternatives a\s+x, a\s+y, ... of a\s+(x|y|...).
Followed(a, nouns) == [k \in 1..Len(nouns) |-> <<a, nouns[k]>>]
Artifacts == <<"api", "endpoint", "component", "class", "model">>

\* The operations of _assess_complexity with their scores.  front-?end is
\* written as its two readings.
operations == <<
    [pattern |-> <<<<"calculate">>, <<"compute">>, <<"evaluate">>>>, score |-> 100],
    [pattern |-> <<<<"search">>, <<"find">>, <<"look up">>>>, score |-> 100],
    [pattern |-> <<<<"count", "text">>, <<"process", "text">>, <<"analyze", "text">>,
                   <<"transform", "text">>>>, score |-> 100],
    [pattern |-> <<<<"run", "code">>, <<"execute">>>>, score |-> 150],
    [pattern |-> <<<<"compare">>, <<"contrast">>, <<"evaluate">>>>, score |-> 200],
    [pattern |-> <<<<"optimize">>, <<"improve">>, <<"enhance">>>>, score |-> 250],
    [pattern |-> <<<<"and">>, <<"then">>, <<"after">>, <<"before">>>>, score |-> 100],
    [pattern |-> <<<<"if">>, <<"when">>, <<"unless">>, <<"otherwise">>>>, score |-> 150],
    [pattern |-> <<<<"all">>, <<"every">>, <<"each">>>>, score |-> 100],
    [pattern |-> <<<<"most">>, <<"best">>, <<"optimal">>>>, score |-> 150],
    [pattern |-> Followed("create", Artifacts), score |-> 200],
    [pattern |-> Followed("generate", Artifacts), score |-> 200],
    [pattern |-> <<<<"design">>, <<"architect">>>>, score |-> 300],
    [pattern |-> <<<<"debug">>, <<"troubleshoot">>, <<"fix">>>>, score |-> 250],
    [pattern |-> <<<<"full", "stack">>, <<"end-to-end">>, <<"complete">>>>, score |-> 300],
    [pattern |-> <<<<"database">>, <<"storage">>, <<"persistence">>>>, score |-> 200],
    [pattern |-> <<<<"authentication">>, <<"security">>, <<"encryption">>>>, score |-> 250],
    [pattern |-> <<<<"deploy">>, <<"release">>, <<"publish">>>>, score |-> 200],
    [pattern |-> <<<<"test">>, <<"validate">>, <<"verify">>>>, score |-> 150],
    [pattern |-> <<<<"front-end">>, <<"frontend">>, <<"back-end">>, <<"backend">>,
                   <<"ui">>, <<"ux">>>>, score |-> 150] >>

tool_keywords == <<
    {"calculate", "compute", "evaluate", "math"},
    {"search", "find", "look up", "query"},
    {"text", "string", "characters", "words"},
    {"code", "execute", "run", "python"},
    {"react", "component", "ui", "frontend"},
    {"api", "endpoint", "backend", "rest"},
    {"database", "model", "schema", "orm"} >>

WordScore == 10
SpecialCharScore == 5
ToolScore == 150
ScoreCap == 1000
DefaultThreshold == 700

\* c.isalnum() or c.isspace(), for the characters of the tasks.
Plain == {"a", "b", "c", "d", "e", "f", "g", "h", "i", "j", "k", "l", "m", "n", "o", "p", "q",
          "r", "s", "t", "u", "v", "w", "x", "y", "z", "A", "C", "E", "F", "L", "S", "T", "U",
          "0", "1", "2", "3", "4", "5", "6", "7", "8", "9", " "}

RECURSIVE OperationsScore(_, _)
OperationsScore(text, n) ==
    IF n > Len(operations) THEN 0
    ELSE operations[n].score * findall(operations[n].pattern, text, 1)
         + OperationsScore(text, n + 1)

Contains(text, kw) == \E i \in 1..Len(text) : LitAt(kw, text, i)
special_chars(text) == Cardinality({i \in 1..Len(text) : SubSeq(text, i, i) \notin Plain})
tools_needed(text) ==
    Cardinality({n \in 1..Len(tool_keywords) : \E kw \in tool_keywords[n] : Contains(text, kw)})

Min(a, b) == IF a <= b THEN a ELSE b
Uncapped(tk) ==
    OperationsScore(Text(Lower(tk)), 1)
    + WordScore * Len(tk)
    + SpecialCharScore * special_chars(Text(tk))
    + ToolScore * tools_needed(Text(Lower(tk)))
\* _assess_complexity(task).
_assess_complexity(tk) == Min(ScoreCap, Uncapped(tk))

\* The test of execute in mode auto.
AtOrBelowThreshold(complexity, threshold) == complexity <= threshold
BelowThreshold(complexity, threshold) == complexity < threshold

\* The keyword argument mode of a call, NoMode if the call has none, and the
\* mode the call runs in.
NoMode == "(none)"
Modes == {"auto", "single", "multi"}
ModeOfCall(kw, configured) == IF kw = NoMode THEN configured ELSE kw
NotAssessed == -1

\* The path execute takes, complexity being the score of its task: the loop
\* of the agent itself or _execute_multi_agent.
PathOf(m, complexity, threshold) ==
    IF m = "auto"
    THEN IF BelowThreshold(complexity, threshold) THEN "single" ELSE "multi"
    ELSE IF m = "multi" THEN "multi"
    ELSE "single"

required_roles == <<"researcher", "planner", "executor", "critic">>
Range(f) == {f[k] : k \in DOMAIN f}

\* A role agent made by the hybrid agent.
RoleAgent(max, tls, explicit) == [max_iterations |-> max, tools |-> tls, explicit |-> explicit]

\* Role agents made anew at every call.
MadeAnew(agents, max, tls) ==
    [role \in Range(required_roles) |-> RoleAgent(max, tls, FALSE)]

\* _ensure_specialized_agents: makes the four role agents if there is none.
_ensure_specialized_agents(agents, max, tls) ==
    IF DOMAIN agents = {}
    THEN [role \in Range(required_roles) |-> RoleAgent(max, tls, FALSE)]
    ELSE agents

\* add_specialized_agent(role, config) with an empty config.
add_specialized_agent(agents, role, max, tls) ==
    [r \in DOMAIN agents \cup {role} |-> IF r = role THEN RoleAgent(max, tls, TRUE) ELSE agents[r]]

\* The tasks the hybrid agent is run on.
HybridTasks == {
    <<"calculate">>,
    <<"CALCULATE", "2+2">>,
    <<"design", "fix", "all", "foo", "foo">>,
    <<"design", "full", "stack", "database", "authentication">> }
Thresholds == {DefaultThreshold, 275}
\* The roles callers add an agent for, and the tools they load.
AddedRoles == {"researcher"}
HybridTools == {"calculator"}
\* The score of each task.
Scores == [tk \in HybridTasks |-> _assess_complexity(tk)]

\* HybridAgent.__init__.
HybridConstructed(m, threshold) ==
    /\ mode = m
    /\ complexity_threshold = threshold
    /\ specialized_agents = <<>>
    /\ dispatch = [called |-> FALSE]
    /\ ran = <<>>

\* The threshold is varied for the agents configured in mode auto.
HybridInit ==
    \E m \in Modes, threshold \in Thresholds :
        /\ m = "auto" \/ threshold = DefaultThreshold
        /\ HybridConstructed(m, threshold)
HybridIdle == HybridConstructed("auto", DefaultThreshold)

\* execute(task, **kwargs) up to the loop of the agent or of the role agents.
HybridExecute ==
    /\ pc \in {"idle", "done", "raised"}
    /\ \E tk \in HybridTasks, kw \in Modes \cup {NoMode} :
         LET m == ModeOfCall(kw, mode)
             path == PathOf(m, Scores[tk], complexity_threshold)
         IN  /\ task' = tk
             /\ dispatch' = [called |-> TRUE, task |-> tk, kw |-> kw, configured |-> mode,
                             score |-> IF m = "auto" THEN Scores[tk] ELSE NotAssessed,
                             path |-> path]
             /\ ran' = <<>>
             /\ result' = [returned |-> FALSE]
             /\ IF path = "single"
                  THEN /\ pc' = "loop"
                       /\ current_iteration' = 0
                       /\ thoughts' = <<>>
                       /\ actions' = <<>>
                       /\ observations' = <<>>
                       /\ outcomes' = <<>>
                       /\ UNCHANGED specialized_agents
                  ELSE /\ pc' = "multi"
                       /\ specialized_agents' =
                            _ensure_specialized_agents(specialized_agents, max_iterations, tools)
                       /\ UNCHANGED <<current_iteration, thoughts, actions, observations, outcomes>>
    /\ UNCHANGED <<tools, route, max_iterations, custom, rerun, mode, complexity_threshold>>

\* The observations a ToolAgent can meet in a run, and the answers its
\* execute can return: what _generate_final_answer makes of them.
Observations ==
    {_execute_action("calculator", {"calculator"}, o, FALSE).observation : o \in ToolOutcomes}
    \cup {_execute_action("dummy_action", {}, [raises |-> TRUE], FALSE).observation}
RoleAnswers ==
    {_generate_final_answer(<<>>, 1)} \cup {_generate_final_answer(<<o>>, 1) : o \in Observations}

\* The task a role agent is given: the words before the task, the task and
\* the answer of the role before it that the f-string puts after it.
role_prompts == <<"Analyze and gather information for", "Plan execution strategy for",
                  "Execute plan for", "Evaluate results for">>
RolePrompt(n, tk, before) ==
    IF n = 1 THEN [says |-> role_prompts[n], task |-> tk]
    ELSE [says |-> role_prompts[n], task |-> tk, given |-> before[n - 1].answer]

\* The runs of the role agents from position n on, before being those already
\* made and answers what each execute returns: they stop at a role that
\* specialized_agents does not hold.
RECURSIVE RolesRun(_, _, _, _, _)
RolesRun(agents, n, tk, before, answers) ==
    IF n > Len(required_roles) \/ required_roles[n] \notin DOMAIN agents THEN before
    ELSE RolesRun(agents, n + 1, tk,
                  Append(before, [role |-> required_roles[n],
                                  prompt |-> RolePrompt(n, tk, before),
                                  answer |-> answers[n]]),
                  answers)

\* task.startswith("calculate"), the case of the letters as written.
StartsWithCalculateAsWritten(tk) == LitAt("calculate", Text(tk), 1)

\* task.lower().startswith("calculate")
StartsWithCalculate(tk) == LitAt("calculate", Text(Lower(tk)), 1)

\* dispatch with what the direct execution did: the action of the router
\* (NotRouted if _decide_action was not called), and the observation of the
\* tool (None if it was not called).
NotRouted == "(not routed)"
Attempted(d, action_name, observation) ==
    [k \in DOMAIN d \cup {"action", "observation"} |->
        IF k = "action" THEN action_name
        ELSE IF k = "observation" THEN observation
        ELSE d[k]]

\* _execute_multi_agent after _ensure_specialized_agents: the direct
\* execution of a calculation, else the four role agents in turn.  The
\* execute of a role agent is that of a ToolAgent, whose answer is what
\* _generate_final_answer gives; a role that is missing raises KeyError.
MultiAgent ==
    /\ pc = "multi"
    /\ \E outcome \in ToolOutcomes, answers \in [1..Len(required_roles) -> RoleAnswers] :
         LET action == _decide_action(task, tools)
             r == _execute_action(action.name, tools, outcome, FALSE)
             called == /\ StartsWithCalculate(task)
                       /\ action.name = "calculator"
                       /\ Has(action.input, "expression")
             direct == /\ called
                       /\ r.observation.status = "success"
                       /\ Has(r.observation, "result")
             runs == RolesRun(specialized_agents, 1, task, <<>>, answers)
         IN  /\ dispatch' =
                   Attempted(dispatch,
                             IF StartsWithCalculate(task) THEN action.name ELSE NotRouted,
                             IF called THEN r.observation ELSE None)
             /\ IF direct
                  THEN /\ result' = [returned |-> TRUE, task |-> task, mode |-> "direct",
                                     direct_result |-> r.observation]
                       /\ pc' = "done"
                       /\ ran' = <<>>
                  ELSE /\ ran' = runs
                       /\ IF Len(runs) = Len(required_roles)
                            THEN /\ pc' = "done"
                                 /\ result' =
                                      [returned |-> TRUE, task |-> task, mode |-> "multi",
                                       answer |-> runs[3].answer,
                                       agent_results |->
                                         [role \in {runs[k].role : k \in 1..Len(runs)} |->
                                            runs[CHOOSE k \in 1..Len(runs) : runs[k].role = role]]]
                            ELSE /\ pc' = "raised"
                                 /\ UNCHANGED result
    /\ UNCHANGED <<tools, task, route, max_iterations, custom, current_iteration, thoughts,
                   actions, observations, outcomes, rerun, mode, complexity_threshold,
                   specialized_agents>>

\* load_tool between two calls of execute.
HybridLoadTool ==
    /\ pc \in {"idle", "done", "raised"}
    /\ \E tool_name \in HybridTools, loaded \in BOOLEAN :
         tools' = IF loaded THEN tools \cup {tool_name} ELSE tools
    /\ UNCHANGED <<task, route, agentVars, hybridVars>>

AddSpecializedAgent ==
    /\ pc \in {"idle", "done", "raised"}
    /\ \E role \in AddedRoles :
         specialized_agents' = add_specialized_agent(specialized_agents, role, max_iterations, tools)
    /\ UNCHANGED <<tools, task, route, agentVars, mode, complexity_threshold, dispatch, ran>>

(***************************************************************************)
(* LongTermMemory (src/devassist/core/memory/long_term.py).                *)
(*                                                                         *)
(* files is the storage directory: the identifiers that have a .json file, *)
(* each with the document last written to it; a write that failed after    *)
(* the file was opened leaves a file that no longer parses (Corrupt).      *)
(* index, category_index and project_index are the three dicts of the      *)
(* object; a bucket is a list of identifiers in append order.  A dict the  *)
(* caller passes is a function from its keys, so that a missing key is a   *)
(* key outside its domain.  uuid4 hands out the identifiers 1, 2, ...; the *)
(* clock is the one of the volatile store (now); added_at remembers the    *)
(* time of each add, ltm_call the last call and faulted whether a write or *)
(* a removal has failed so far.  Every method is an                        *)
(* operator from the store it is called on to the store it leaves and the  *)
(* value it returns; what the file system does to a write or a removal is  *)
(* an input of the call.                                                   *)
(***************************************************************************)
VARIABLES index, category_index, project_index, files, index_in_memory,
          max_items_per_category, uuids, added_at, ltm_calls, ltm_call,
          faulted

ltmVars == <<index, category_index, project_index, files, index_in_memory,
             max_items_per_category, uuids, added_at, ltm_calls, ltm_call,
             faulted>>

Corrupt == [corrupt |-> TRUE]

(* The dicts a caller passes: a text, with or without a project or a       *)
(* category of its own.                                                    *)
LtmItems ==
    {[text |-> "a"], [text |-> "a", project |-> "alpha"],
     [text |-> "a", category |-> "notes"]}

(* What the write of _save_item does: it writes the file; or open raises   *)
(* and the directory stays as it was; or json.dump raises after open has   *)
(* truncated the file, which no longer parses.                             *)
WriteOutcomes == {"written", "refused", "torn"}

DictGet(d, key, default) == IF key \in DOMAIN d THEN d[key] ELSE default

DictPut(d, key, value) ==
    [k \in DOMAIN d \cup {key} |-> IF k = key THEN value ELSE d[k]]

DictDel(d, key) == [k \in DOMAIN d \ {key} |-> d[k]]

EmptyDict == [k \in {} |-> 0]

ListRemove(list, x) ==
    LET at == CHOOSE i \in 1..Len(list) :
                  list[i] = x /\ \A j \in 1..(i - 1) : list[j] # x
    IN  SubSeq(list, 1, at - 1) \o SubSeq(list, at + 1, Len(list))

InList(list, x) == \E i \in 1..Len(list) : list[i] = x

MetaOf(item) == DictGet(item, "_meta", EmptyDict)

LtmStore ==
    [index |-> index, category_index |-> category_index,
     project_index |-> project_index, files |-> files]

_save_item(s, identifier, item, wrote) ==
    CASE wrote = "written" -> [s EXCEPT !.files = DictPut(@, identifier, item)]
      [] wrote = "torn"    -> [s EXCEPT !.files = DictPut(@, identifier, Corrupt)]
      [] OTHER             -> s

_delete_item_file(s, identifier, removed) ==
    IF identifier \notin DOMAIN s.files THEN [store |-> s, value |-> FALSE]
    ELSE IF removed
         THEN [store |-> [s EXCEPT !.files = DictDel(@, identifier)], value |-> TRUE]
         ELSE [store |-> s, value |-> FALSE]

(* One of the two bucket dicts after identifier left the bucket key: the   *)
(* bucket goes when it is left empty.                                      *)
Unlisted(buckets, key, identifier) ==
    IF key \in DOMAIN buckets /\ InList(buckets[key], identifier)
    THEN LET rest == ListRemove(buckets[key], identifier)
         IN  IF rest = <<>> THEN DictDel(buckets, key)
             ELSE [buckets EXCEPT ![key] = rest]
    ELSE buckets

(* The indexes left as they are.                                           *)
StillIndexed(s, identifier) == s

_remove_from_indexes(s, identifier) ==
    IF identifier \in DOMAIN s.index
    THEN LET meta == MetaOf(s.index[identifier])
             project == DictGet(meta, "project", "default")
             category == DictGet(meta, "category", "general")
         IN  [s EXCEPT !.index = DictDel(@, identifier),
                       !.project_index = Unlisted(@, project, identifier),
                       !.category_index = Unlisted(@, category, identifier)]
    ELSE s

Appended(buckets, key, identifier) ==
    DictPut(buckets, key, DictGet(buckets, key, <<>>) \o <<identifier>>)

WithMeta(item, meta) ==
    [k \in DOMAIN item \cup {"_meta"} |-> IF k = "_meta" THEN meta ELSE item[k]]

ltm_add(s, item, identifier, wrote, removed) ==
    LET timestamp == now
        project == DictGet(item, "project", "default")
        category == DictGet(item, "category", "general")
        item_with_metadata ==
            WithMeta(item, [id |-> identifier, created_at |-> timestamp,
                            updated_at |-> timestamp, project |-> project,
                            category |-> category])
        saved == _save_item(s, identifier, item_with_metadata, wrote)
        listed == [saved EXCEPT !.index = DictPut(@, identifier, item_with_metadata),
                                !.category_index = Appended(@, category, identifier)]
        bucket == listed.category_index[category]
        oldest_id == Head(bucket)
        popped == [listed EXCEPT !.category_index[category] = Tail(bucket)]
        pruned ==
            IF Len(bucket) > max_items_per_category
            THEN _delete_item_file(_remove_from_indexes(popped, oldest_id),
                                   oldest_id, removed).store
            ELSE listed
        done == [pruned EXCEPT !.project_index = Appended(@, project, identifier)]
    IN  [store |-> IF index_in_memory THEN done ELSE saved, value |-> identifier]

ltm_get(s, identifier) ==
    IF index_in_memory /\ identifier \in DOMAIN s.index THEN s.index[identifier]
    ELSE IF identifier \notin DOMAIN s.files THEN None
    ELSE IF s.files[identifier] = Corrupt THEN None
    ELSE s.files[identifier]

(* One of the two bucket dicts after update moved identifier from old to   *)
(* new: remove from the old bucket, append to the new one.                 *)
Moved(buckets, old, new, identifier) ==
    LET left == IF old \in DOMAIN buckets /\ InList(buckets[old], identifier)
                THEN [buckets EXCEPT ![old] = ListRemove(@, identifier)]
                ELSE buckets
    IN  Appended(left, new, identifier)

(* A _meta made anew at the time of the update.                            *)
FreshMeta(existing_item, identifier, item) ==
    [id |-> identifier, created_at |-> now, updated_at |-> now,
     project |-> DictGet(item, "project", "default"),
     category |-> DictGet(item, "category", "general")]

(* The _meta update writes: the one the item has, with updated_at set.     *)
KeptMeta(existing_item, identifier, item) ==
    IF "_meta" \in DOMAIN existing_item
    THEN [existing_item["_meta"] EXCEPT !.updated_at = now]
    ELSE [id |-> identifier, created_at |-> now, updated_at |-> now,
          project |-> DictGet(item, "project", "default"),
          category |-> DictGet(item, "category", "general")]

ltm_update(s, identifier, item, wrote) ==
    LET existing_item == ltm_get(s, identifier)
        kept == KeptMeta(existing_item, identifier, item)
        saved == _save_item(s, identifier, WithMeta(item, kept), wrote)
        old_project == DictGet(MetaOf(existing_item), "project", "default")
        old_category == DictGet(MetaOf(existing_item), "category", "general")
        new_project == DictGet(item, "project", old_project)
        new_category == DictGet(item, "category", old_category)
        meta == [kept EXCEPT !.project = new_project, !.category = new_category]
        done ==
            [saved EXCEPT
                !.project_index =
                    IF new_project # old_project
                    THEN Moved(@, old_project, new_project, identifier) ELSE @,
                !.category_index =
                    IF new_category # old_category
                    THEN Moved(@, old_category, new_category, identifier) ELSE @,
                !.index = DictPut(@, identifier, WithMeta(item, meta))]
    IN  IF existing_item = None THEN [store |-> s, value |-> FALSE]
        ELSE [store |-> IF index_in_memory THEN done ELSE saved, value |-> TRUE]

ltm_delete(s, identifier, removed) ==
    _delete_item_file(IF index_in_memory THEN _remove_from_indexes(s, identifier) ELSE s,
                      identifier, removed)

(* stuck: the files whose removal fails.                                   *)
ltm_clear(s, stuck) ==
    LET swept == [s EXCEPT !.files = [k \in DOMAIN s.files \cap stuck |-> s.files[k]]]
    IN  IF index_in_memory
        THEN [swept EXCEPT !.index = EmptyDict, !.category_index = EmptyDict,
                           !.project_index = EmptyDict]
        ELSE swept

get_all_projects(s) ==
    IF index_in_memory THEN DOMAIN s.project_index
    ELSE {DictGet(MetaOf(ltm_get(s, k)), "project", "default") :
              k \in {f \in DOMAIN s.files : ltm_get(s, f) # None}}

get_all_categories(s) ==
    IF index_in_memory THEN DOMAIN s.category_index
    ELSE {DictGet(MetaOf(ltm_get(s, k)), "category", "general") :
              k \in {f \in DOMAIN s.files : ltm_get(s, f) # None}}

(* os.listdir promises no order: every enumeration of the files.           *)
Listings(fs) ==
    {l \in [1..Cardinality(DOMAIN fs) -> DOMAIN fs] :
        \A i, j \in DOMAIN l : i # j => l[i] # l[j]}

RECURSIVE LoadFrom(_, _, _)
LoadFrom(s, listing, n) ==
    IF n > Len(listing) THEN s
    ELSE LET identifier == listing[n]
             item == s.files[identifier]
             meta == MetaOf(item)
             project == DictGet(meta, "project", "default")
             category == DictGet(meta, "category", "general")
         IN  LoadFrom(IF item = Corrupt THEN s
                      ELSE [s EXCEPT !.index = DictPut(@, identifier, item),
                                     !.project_index = Appended(@, project, identifier),
                                     !.category_index = Appended(@, category, identifier)],
                      listing, n + 1)

_load_index(s, listing) ==
    LoadFrom([s EXCEPT !.index = EmptyDict, !.category_index = EmptyDict,
                       !.project_index = EmptyDict], listing, 1)

(* The queries a caller passes to search: a field to match, a project or   *)
(* a category filter, or both filters.                                     *)
LtmQueries ==
    {EmptyDict, [text |-> "a"], [project |-> "alpha"], [category |-> "notes"],
     [project |-> "alpha", category |-> "notes"]}

(* The caller's dict after query.pop of project and of category.           *)
Popped(query) == [k \in DOMAIN query \ {"project", "category"} |-> query[k]]

(* _matches_query on simple keys.                                          *)
_matches_query(item, query) ==
    \A key \in DOMAIN query : key \in DOMAIN item /\ item[key] = query[key]

SearchResult(identifier, item) ==
    [id |-> identifier, item |-> item,
     created_at |-> DictGet(MetaOf(item), "created_at", 0)]

(* The loop of search over the identifiers of the index.                   *)
RECURSIVE ScanIndex(_, _, _, _, _, _)
ScanIndex(s, ids, n, query, limit, results) ==
    IF n > Len(ids) THEN results
    ELSE LET identifier == ids[n]
             hit == /\ identifier \in DOMAIN s.index
                    /\ _matches_query(s.index[identifier], query)
             found == IF hit
                      THEN Append(results, SearchResult(identifier, s.index[identifier]))
                      ELSE results
         IN  IF hit /\ Len(found) >= limit THEN found
             ELSE ScanIndex(s, ids, n + 1, query, limit, found)

(* The loop of search over the files of the directory: item is what get    *)
(* reads from the file, and item.get raises when a filter is given and     *)
(* the file does not parse.                                                *)
RECURSIVE ScanFiles(_, _, _, _, _, _, _)
ScanFiles(s, listing, n, filters, query, limit, results) ==
    IF n > Len(listing) THEN [raised |-> FALSE, results |-> results]
    ELSE LET identifier == listing[n]
             unread == s.files[identifier] = Corrupt
             item == s.files[identifier]
             skipped == \E f \in DOMAIN filters :
                            \/ f \notin DOMAIN MetaOf(item)
                            \/ MetaOf(item)[f] # filters[f]
             hit == ~unread /\ ~skipped /\ _matches_query(item, query)
             found == IF hit THEN Append(results, SearchResult(identifier, item))
                      ELSE results
         IN  IF unread /\ DOMAIN filters # {} THEN [raised |-> TRUE]
             ELSE IF hit /\ Len(found) >= limit THEN [raised |-> FALSE, results |-> found]
             ELSE ScanFiles(s, listing, n + 1, filters, query, limit, found)

(* results.sort(key=created_at, reverse=True): a stable sort.              *)
RECURSIVE ByTimeDown(_, _)
ByTimeDown(results, t) ==
    IF t < 0 THEN <<>>
    ELSE SelectSeq(results, LAMBDA r : r.created_at = t) \o ByTimeDown(results, t - 1)

NewestFirst(results) == ByTimeDown(results, MaxLtmTime)

(* search(query, limit) of a memory with or without the index in memory:   *)
(* listing is the order of list(self.index.keys()) or of os.listdir; left  *)
(* is the caller's query dict after the call.                              *)
ltm_search(s, in_memory, query, limit, listing) ==
    LET rest == Popped(query)
        filters == [k \in DOMAIN query \cap {"project", "category"} |-> query[k]]
        item_ids_to_search ==
            IF "project" \in DOMAIN query
            THEN DictGet(s.project_index, query["project"], <<>>)
            ELSE IF "category" \in DOMAIN query
            THEN DictGet(s.category_index, query["category"], <<>>)
            ELSE listing
        scanned ==
            IF in_memory
            THEN [raised |-> FALSE,
                  results |-> ScanIndex(s, item_ids_to_search, 1, rest, limit, <<>>)]
            ELSE ScanFiles(s, listing, 1, filters, rest, limit, <<>>)
    IN  IF scanned.raised THEN [store |-> s, raised |-> TRUE, left |-> rest]
        ELSE [store |-> s, raised |-> FALSE, left |-> rest,
              value |-> NewestFirst(scanned.results)]

(* The orders in which a search can meet the identifiers.                  *)
ListingsOf(s, in_memory) == Listings(IF in_memory THEN s.index ELSE s.files)

ResultIds(results) == [k \in 1..Len(results) |-> results[k].id]

NoCall == [op |-> "none"]

LtmConstructed(in_memory, per_category) ==
    /\ index = EmptyDict
    /\ category_index = EmptyDict
    /\ project_index = EmptyDict
    /\ files = EmptyDict
    /\ index_in_memory = in_memory
    /\ max_items_per_category = per_category
    /\ uuids = 0
    /\ added_at = EmptyDict
    /\ ltm_calls = 0
    /\ faulted = FALSE
    /\ ltm_call = NoCall

LtmInit ==
    \E in_memory \in BOOLEAN, per_category \in 1..MaxPerCategory :
        LtmConstructed(in_memory, per_category)

LtmIdle == LtmConstructed(TRUE, 1000)

SetLtmStore(s) ==
    /\ index' = s.index
    /\ category_index' = s.category_index
    /\ project_index' = s.project_index
    /\ files' = s.files
    /\ UNCHANGED <<index_in_memory, max_items_per_category>>

(* The identifiers a caller can hold: the ones add has returned.           *)
Known == 1..uuids

Called == ltm_calls' = ltm_calls + 1

(* Whether a write or a removal works is asked only of a call that         *)
(* reaches it.                                                             *)
RemovalsOf(reached) == IF reached THEN BOOLEAN ELSE {TRUE}

WritesOf(reached) == IF reached THEN WriteOutcomes ELSE {"written"}

Faulted(wrote, removed) == faulted' = (faulted \/ wrote # "written" \/ ~removed)

Overflows(item) ==
    /\ index_in_memory
    /\ Len(DictGet(category_index, DictGet(item, "category", "general"), <<>>))
           >= max_items_per_category

LtmTick ==
    /\ now < MaxLtmTime
    /\ Tick
    /\ UNCHANGED ltmVars

LtmAdd ==
    /\ ltm_calls < MaxLtmCalls
    /\ \E item \in LtmItems, wrote \in WriteOutcomes :
         \E removed \in RemovalsOf(Overflows(item)) :
          LET call == ltm_add(LtmStore, item, uuids + 1, wrote, removed)
          IN  /\ SetLtmStore(call.store)
              /\ uuids' = uuids + 1
              /\ added_at' = DictPut(added_at, call.value, now)
              /\ ltm_call' = [op |-> "add", id |-> call.value,
                              evicted |-> DOMAIN index \ DOMAIN call.store.index]
              /\ Called
              /\ Faulted(wrote, removed)

LtmUpdate ==
    /\ ltm_calls < MaxLtmCalls
    /\ \E identifier \in Known, item \in LtmItems :
         \E wrote \in WritesOf(ltm_get(LtmStore, identifier) # None) :
          LET call == ltm_update(LtmStore, identifier, item, wrote)
          IN  /\ SetLtmStore(call.store)
              /\ ltm_call' = [op |-> "update", id |-> identifier, value |-> call.value]
              /\ Called
              /\ Faulted(wrote, TRUE)
              /\ UNCHANGED <<uuids, added_at>>

LtmDelete ==
    /\ ltm_calls < MaxLtmCalls
    /\ \E identifier \in Known :
         \E removed \in RemovalsOf(identifier \in DOMAIN files) :
          LET call == ltm_delete(LtmStore, identifier, removed)
          IN  /\ SetLtmStore(call.store)
              /\ ltm_call' = [op |-> "delete", id |-> identifier, value |-> call.value]
              /\ Called
              /\ Faulted("written", removed)
              /\ UNCHANGED <<uuids, added_at>>

LtmClear ==
    /\ ltm_calls < MaxLtmCalls
    /\ \E stuck \in SUBSET DOMAIN files :
          /\ SetLtmStore(ltm_clear(LtmStore, stuck))
          /\ ltm_call' = [op |-> "clear"]
          /\ Called
          /\ Faulted("written", stuck = {})
          /\ UNCHANGED <<uuids, added_at>>

LtmSearch ==
    /\ ltm_calls < MaxLtmCalls
    /\ \E query \in LtmQueries, limit \in 1..MaxLtmLimit :
         \E listing \in ListingsOf(LtmStore, index_in_memory) :
          LET call == ltm_search(LtmStore, index_in_memory, query, limit, listing)
          IN  /\ SetLtmStore(call.store)
              /\ ltm_call' = [op |-> "search", query |-> query, left |-> call.left,
                              raised |-> call.raised,
                              value |-> IF call.raised THEN <<>>
                                        ELSE ResultIds(call.value)]
              /\ Called
              /\ UNCHANGED <<uuids, added_at, faulted>>

(* A new LongTermMemory over the same directory: __init__ loads the index. *)
Reopen ==
    /\ ltm_calls < MaxLtmCalls
    /\ index_in_memory
    /\ \E listing \in Listings(files) :
          SetLtmStore(_load_index(LtmStore, listing))
    /\ ltm_call' = [op |-> "open"]
    /\ Called
    /\ UNCHANGED <<uuids, added_at, faulted>>

(***************************************************************************)
(* BasePlanner.validate_plan (src/devassist/core/planning/base_planner.py) *)
(* and TaskPlanner (src/devassist/core/planning/task_planner.py).          *)
(*                                                                         *)
(* A step is a dict: a function from its keys.  A value that can be a list *)
(* or something else is ListOf(sequence) when it is a list and None when   *)
(* it is JSON null; a step that is not a dict is None.  An error message   *)
(* is the record of the parts its f-string is made of.  A call that can    *)
(* raise returns whether it raised.                                        *)
(***************************************************************************)
VARIABLES checked_plan, validation, plan, plan_call

planVars == <<checked_plan, validation, plan, plan_call>>

ListOf(sequence) == [list |-> sequence]

IsList(value) == "list" \in DOMAIN value

NoId == "None"

IdPool == <<"a", "b", "c", "d", "e">>

(* next((s for s in steps if s.get(id) == dep_id), None), and the any() of  *)
(* validate_plan: the index of the first step with that id, 0 when there   *)
(* is none, -1 when a step that is not a dict is met first (s.get raises). *)
RECURSIVE FirstWithId(_, _, _)
FirstWithId(steps, dep_id, n) ==
    IF n > Len(steps) THEN 0
    ELSE IF steps[n] = None THEN -1
    ELSE IF DictGet(steps[n], "id", NoId) = dep_id THEN n
    ELSE FirstWithId(steps, dep_id, n + 1)

(* Only a step that names itself among its dependencies.                   *)
SelfDependencyOnly(steps, current_step, visited) ==
    LET dependencies == DictGet(current_step, "dependencies", ListOf(<<>>))
    IN  IF ~IsList(dependencies) THEN "raises"
        ELSE IF InList(dependencies.list, DictGet(current_step, "id", NoId))
             THEN "circular" ELSE "acyclic"

RECURSIVE _has_circular_dependency(_, _, _)
RECURSIVE EachDependency(_, _, _, _)
_has_circular_dependency(steps, current_step, visited) ==
    LET step_id == DictGet(current_step, "id", NoId)
        dependencies == DictGet(current_step, "dependencies", ListOf(<<>>))
    IN  IF InList(visited, step_id) THEN "circular"
        ELSE IF ~IsList(dependencies) THEN "raises"
        ELSE EachDependency(steps, dependencies.list, visited \o <<step_id>>, 1)

(* The loop over the dependencies, from the n-th on.                       *)
EachDependency(steps, dependencies, visited, n) ==
    IF n > Len(dependencies) THEN "acyclic"
    ELSE LET dep_step == FirstWithId(steps, dependencies[n], 1)
         IN  IF dep_step = -1 THEN "raises"
             ELSE IF dep_step = 0
                  THEN EachDependency(steps, dependencies, visited, n + 1)
             ELSE LET below == _has_circular_dependency(steps, steps[dep_step], visited)
                  IN  IF below = "acyclic"
                      THEN EachDependency(steps, dependencies, visited, n + 1)
                      ELSE below

RECURSIVE Concat(_)
Concat(lists) == IF lists = <<>> THEN <<>> ELSE Head(lists) \o Concat(Tail(lists))

MissingFields(dict, fields, message) ==
    Concat([k \in 1..Len(fields) |->
               IF fields[k] \in DOMAIN dict THEN <<>>
               ELSE <<[error |-> message, field |-> fields[k]]>>])

(* What validate_plan appends for step i (counted from 1).                 *)
StepErrors(steps, i) ==
    LET step == steps[i]
        dependencies == DictGet(step, "dependencies", ListOf(<<>>))
        dangling ==
            IF ~IsList(dependencies)
            THEN <<[error |-> "dependencies must be a list", step |-> i]>>
            ELSE Concat([k \in 1..Len(dependencies.list) |->
                           IF FirstWithId(steps, dependencies.list[k], 1) = 0
                           THEN <<[error |-> "dependency on non-existent step",
                                   step |-> i, dep |-> dependencies.list[k]]>>
                           ELSE <<>>])
        circular ==
            IF _has_circular_dependency(steps, step, <<>>) = "circular"
            THEN <<[error |-> "circular dependency", step |-> i]>> ELSE <<>>
    IN  IF step = None THEN <<[error |-> "must be a dictionary", step |-> i]>>
        ELSE MissingFields(step, <<"id", "description">>, "Step missing required field")
                 \o dangling \o circular

(* Whether validating step i raises: any() or next() meets a step that is  *)
(* not a dict, or the dependencies cannot be iterated.                     *)
StepRaises(steps, i) ==
    LET step == steps[i]
        dependencies == DictGet(step, "dependencies", ListOf(<<>>))
    IN  /\ step # None
        /\ \/ /\ IsList(dependencies)
              /\ \E k \in 1..Len(dependencies.list) :
                    FirstWithId(steps, dependencies.list[k], 1) = -1
           \/ _has_circular_dependency(steps, step, <<>>) = "raises"

validate_plan(p) ==
    LET steps == DictGet(p, "steps", ListOf(<<>>))
    IN  IF IsList(steps) /\ \E i \in 1..Len(steps.list) : StepRaises(steps.list, i)
        THEN [raised |-> TRUE]
        ELSE [raised |-> FALSE,
              errors |->
                MissingFields(p, <<"id", "task", "steps">>, "Missing required field")
                \o IF ~IsList(steps) THEN <<[error |-> "Steps must be a list"]>>
                   ELSE Concat([i \in 1..Len(steps.list) |-> StepErrors(steps.list, i)])]

(* The plans validate_plan is given are written step by step: steps a, b,  *)
(* ... with a description, each depending on up to MaxDeps of the steps a   *)
(* plan can have.                                                          *)
OrderedDeps(ids) == SelectSeq(IdPool, LAMBDA x : x \in ids)

DepSets ==
    {ids \in SUBSET {IdPool[i] : i \in 1..MaxPlanSteps} : Cardinality(ids) <= MaxDeps}

GraphStep(i, ids) ==
    [id |-> IdPool[i], description |-> "do", dependencies |-> ListOf(OrderedDeps(ids))]

NoPlan == [status |-> "none"]

PlanConstructed(p) ==
    /\ checked_plan = p
    /\ validation = NoCall
    /\ plan = NoPlan
    /\ plan_call = NoCall

PlanIdle == PlanConstructed([id |-> "plan", task |-> "task", steps |-> ListOf(<<>>)])

ValidateInit == PlanIdle

WriteStep ==
    /\ validation = NoCall
    /\ Len(checked_plan.steps.list) < MaxPlanSteps
    /\ \E ids \in DepSets :
          checked_plan' =
              [checked_plan EXCEPT
                  !.steps = ListOf(@.list \o <<GraphStep(Len(@.list) + 1, ids)>>)]
    /\ UNCHANGED <<validation, plan, plan_call>>

ValidatePlan ==
    /\ validation = NoCall
    /\ validation' = validate_plan(checked_plan)
    /\ UNCHANGED <<checked_plan, plan, plan_call>>

(* What self.model.extract_json does: it raises, or it returns a value.    *)
(* The value is not a dict (None), or a dict with or without steps; steps  *)
(* is null or one of StepLists.                                            *)
StepOf(id) == [id |-> id, description |-> "do"]

StepAfter(id, dep_id) ==
    [id |-> id, description |-> "do", dependencies |-> ListOf(<<dep_id>>)]

StepLists ==
    {<<>>,
     <<StepOf("a")>>,
     <<StepAfter("a", "a")>>,
     <<StepAfter("a", "b")>>,
     <<StepAfter("b", "a")>>,
     <<[domain |-> "backend"]>>,
     <<[id |-> "a", description |-> "do", dependencies |-> None]>>,
     <<None>>,
     <<StepOf("a"), StepAfter("b", "a")>>,
     <<StepAfter("b", "a"), StepOf("a")>>,
     <<StepAfter("a", "b"), StepAfter("b", "a")>>}

ModelOutputs ==
    {[raises |-> TRUE],
     [raises |-> FALSE, value |-> None],
     [raises |-> FALSE, value |-> [error |-> "Failed to parse JSON response"]],
     [raises |-> FALSE, value |-> [steps |-> None]]}
    \cup {[raises |-> FALSE, value |-> [steps |-> ListOf(steps)]] : steps \in StepLists}

(* f-string step-{i+1}-{uuid}: an id no model output carries.              *)
GeneratedId(i) == <<"step-1", "step-2">>[i]

MinimalPlan ==
    [status |-> "error", steps |-> <<>>, completed_steps |-> <<>>,
     current_step_index |-> 0, validation_errors |-> <<>>]

Validated(steps) ==
    validate_plan([id |-> "plan", task |-> "task", steps |-> ListOf(steps)])

(* The steps as the loop of _process_plan_data leaves them.                *)
WithDefaults(steps) ==
    [i \in 1..Len(steps) |->
        [k \in DOMAIN steps[i] \cup {"id", "dependencies"} |->
            IF k \in DOMAIN steps[i] THEN steps[i][k]
            ELSE IF k = "id" THEN GeneratedId(i) ELSE ListOf(<<>>)]]

_process_plan_data(plan_data) ==
    LET steps == DictGet(plan_data, "steps", ListOf(<<>>))
        checked == Validated(WithDefaults(steps.list))
    IN  IF plan_data = None \/ ~IsList(steps) THEN [raised |-> TRUE]
        ELSE IF \E i \in 1..Len(steps.list) : steps.list[i] = None THEN [raised |-> TRUE]
        ELSE IF checked.raised THEN [raised |-> TRUE]
        ELSE [raised |-> FALSE,
              plan |-> [status |-> "created", steps |-> WithDefaults(steps.list),
                        completed_steps |-> <<>>, current_step_index |-> 0,
                        validation_errors |-> checked.errors]]

create_plan(output) ==
    LET tried == IF output.raises THEN [raised |-> TRUE]
                 ELSE _process_plan_data(output.value)
    IN  IF tried.raised THEN [raised |-> FALSE, plan |-> MinimalPlan] ELSE tried

(* The steps from current_step_index on.                                   *)
_get_remaining_steps(p) ==
    IF p.current_step_index >= Len(p.steps) THEN <<>>
    ELSE SubSeq(p.steps, p.current_step_index + 1, Len(p.steps))

(* _create_replanning_prompt calls step.get on every remaining step: it    *)
(* raises when one of them is not a dict.                                  *)
PromptRaises(p) == InList(_get_remaining_steps(p), None)

replan(p, output) ==
    LET completed_steps == p.completed_steps
        new_steps == DictGet(output.value, "steps", ListOf(<<>>))
        steps == completed_steps \o new_steps.list
        checked == Validated(steps)
        merged ==
            [p EXCEPT !.steps = steps,
                      !.status = "updated",
                      !.current_step_index =
                          IF Len(completed_steps) < Len(steps)
                          THEN Len(completed_steps) ELSE 0,
                      !.validation_errors =
                          IF checked.errors # <<>> THEN checked.errors ELSE @]
        failed ==
            \/ output.raises
            \/ output.value = None
            \/ ~IsList(new_steps)
            \/ checked.raised
    IN  IF PromptRaises(p) THEN [raised |-> TRUE]
        ELSE IF failed THEN [raised |-> FALSE, plan |-> [p EXCEPT !.status = "error"]]
        ELSE [raised |-> FALSE, plan |-> merged]

CompletedIds(p) ==
    [k \in 1..Len(p.completed_steps) |-> DictGet(p.completed_steps[k], "id", NoId)]

DependenciesOf(step) == DictGet(step, "dependencies", ListOf(<<>>))

\* Dependencies that are never looked at.
NotLookedAt(p, step) == TRUE

(* Whether the loop over the step's dependencies finds them all among the  *)
(* ids of the completed steps.                                             *)
Satisfied(p, step) ==
    \A k \in 1..Len(DependenciesOf(step).list) :
        InList(CompletedIds(p), DependenciesOf(step).list[k])

(* step.get(...) on a step that is no dict, or a loop over dependencies    *)
(* that are no list.                                                       *)
Unreadable(step) == step = None \/ ~IsList(DependenciesOf(step))

RECURSIVE _find_executable_step(_, _)
_find_executable_step(p, i) ==
    IF i > Len(p.steps) THEN [raised |-> FALSE, step |-> None]
    ELSE IF Unreadable(p.steps[i]) THEN [raised |-> TRUE]
    ELSE IF Satisfied(p, p.steps[i]) THEN [raised |-> FALSE, step |-> p.steps[i]]
    ELSE _find_executable_step(p, i + 1)

get_next_step(p) ==
    IF p.current_step_index >= Len(p.steps) THEN [raised |-> FALSE, step |-> None]
    ELSE LET next_step == p.steps[p.current_step_index + 1]
         IN  IF next_step = None THEN [raised |-> TRUE]
             ELSE IF ~IsList(DependenciesOf(next_step)) \/ Satisfied(p, next_step)
                  THEN [raised |-> FALSE, step |-> next_step]
             ELSE _find_executable_step(p, p.current_step_index + 1)

(* The list index of the first step with the id: -1 when there is none,    *)
(* -2 when the search meets a step that is no dict and raises.             *)
RECURSIVE StepIndex(_, _, _)
StepIndex(steps, step_id, i) ==
    IF i > Len(steps) THEN -1
    ELSE IF steps[i] = None THEN -2
    ELSE IF DictGet(steps[i], "id", NoId) = step_id THEN i - 1
    ELSE StepIndex(steps, step_id, i + 1)

Completed(step, outcome) ==
    [k \in DOMAIN step \cup {"result"} |-> IF k = "result" THEN outcome ELSE step[k]]

mark_step_complete(p, step_id, outcome) ==
    LET step_index == StepIndex(p.steps, step_id, 1)
        current_index == p.current_step_index
        advanced == IF step_index = current_index THEN current_index + 1
                    ELSE current_index
    IN  IF step_index = -2 THEN [raised |-> TRUE]
        ELSE IF step_index = -1 THEN [raised |-> FALSE, plan |-> p]
        ELSE [raised |-> FALSE,
              plan |-> [p EXCEPT
                !.completed_steps = @ \o <<Completed(p.steps[step_index + 1], outcome)>>,
                !.current_step_index = advanced,
                !.status = IF advanced >= Len(p.steps) THEN "completed" ELSE @]]

(* ---- TaskPlanner: one plan, as the caller holds it between calls ---- *)

StepIds == {"a", "b", "step-1", "absent"}

CreatePlan ==
    /\ plan = NoPlan
    /\ \E output \in ModelOutputs :
          /\ plan' = create_plan(output).plan
          /\ plan_call' = [op |-> "create_plan", model_raised |-> output.raises]
    /\ UNCHANGED <<checked_plan, validation>>

(* The caller keeps the plan it has when the call raises.                  *)
Replan ==
    /\ plan # NoPlan
    /\ \E output \in ModelOutputs :
          LET returned == replan(plan, output)
          IN  /\ plan' = IF returned.raised THEN plan ELSE returned.plan
              /\ plan_call' = [op |-> "replan", raised |-> returned.raised,
                               model_raised |-> output.raises]
    /\ UNCHANGED <<checked_plan, validation>>

GetNextStep ==
    /\ plan # NoPlan
    /\ plan_call' = [op |-> "get_next_step", returned |-> get_next_step(plan)]
    /\ UNCHANGED <<checked_plan, validation, plan>>

MarkStepComplete ==
    /\ plan # NoPlan
    /\ Len(plan.completed_steps) < MaxCompleted
    /\ \E step_id \in StepIds :
          LET returned == mark_step_complete(plan, step_id, "ok")
          IN  /\ plan' = IF returned.raised THEN plan ELSE returned.plan
              /\ plan_call' = [op |-> "mark_step_complete", step_id |-> step_id,
                               raised |-> returned.raised]
    /\ UNCHANGED <<checked_plan, validation>>

(* ---- TaskPlanner: a caller that executes a plan ---- *)

(* The caller asks for the next step, executes it and marks it complete,   *)
(* again and again, until get_next_step returns no step.  The plans are    *)
(* those create_plan makes of three steps a, b and c, listed in every      *)
(* order, each depending on any of the other two.  RunCap is more          *)
(* completions than a run that ends can make: a step is completed at most  *)
(* once as the step at current_step_index and at most once before that.    *)
RunIds == {"a", "b", "c"}

RunCap == 2 * Cardinality(RunIds)

RunOrders ==
    {o \in [1..Cardinality(RunIds) -> RunIds] : \A i, j \in DOMAIN o : i # j => o[i] # o[j]}

DepsInOrder(S) == SelectSeq(<<"a", "b", "c">>, LAMBDA x : x \in S)

(* The dependencies of the steps listed in the order o: none on itself.    *)
RunDeps(o) ==
    {e \in [1..Cardinality(RunIds) -> SUBSET RunIds] :
        \A i \in 1..Cardinality(RunIds) : o[i] \notin e[i]}

RunStepLists ==
    UNION {{[i \in 1..Cardinality(RunIds) |->
               [id |-> o[i], description |-> "do",
                dependencies |-> ListOf(DepsInOrder(d[i]))]] : d \in RunDeps(o)} :
           o \in RunOrders}

RunInit ==
    /\ checked_plan = [id |-> "plan", task |-> "task", steps |-> ListOf(<<>>)]
    /\ validation = NoCall
    /\ plan_call = NoCall
    /\ \E steps \in RunStepLists :
          plan = create_plan([raises |-> FALSE, value |-> [steps |-> ListOf(steps)]]).plan

RunNextStep ==
    /\ plan_call.op # "get_next_step"
    /\ plan_call' = [op |-> "get_next_step", returned |-> get_next_step(plan)]
    /\ UNCHANGED <<checked_plan, validation, plan>>

RunCompleteStep ==
    /\ plan_call.op = "get_next_step"
    /\ ~plan_call.returned.raised
    /\ plan_call.returned.step # None
    /\ Len(plan.completed_steps) < RunCap
    /\ LET returned == mark_step_complete(plan, plan_call.returned.step.id, "ok")
       IN  /\ plan' = IF returned.raised THEN plan ELSE returned.plan
           /\ plan_call' = [op |-> "mark_step_complete",
                            step_id |-> plan_call.returned.step.id,
                            raised |-> returned.raised]
    /\ UNCHANGED <<checked_plan, validation>>

(***************************************************************************)
(* ModelRouter (src/devassist/models/model_router.py).                     *)
(*                                                                         *)
(* models, _model_cache and task_model_mappings are the dicts of the       *)
(* router and default_model its default instance, None until made.  A      *)
(* model instance is a record of its identity and of the keyword arguments *)
(* it was constructed with; models_made counts the instances made, by the  *)
(* router or by a caller.  A temperature is counted in hundredths.  What   *)
(* the constructor of a model class does is an input of the call: it       *)
(* builds the model, or it raises and the fallback OpenAIModel is built,   *)
(* or the fallback raises too and ValueError leaves the router.            *)
(***************************************************************************)
VARIABLES models, _model_cache, task_model_mappings, default_model, models_made

mrVars == <<models, _model_cache, task_model_mappings, default_model, models_made>>

ModelNames == {"planning", "reviewer"}

DefaultModelConfig == [provider |-> "openai", model_name |-> "gpt-4", temperature |-> 0]
PlanningConfig == [provider |-> "openai", model_name |-> "gpt-4", temperature |-> 20]
ModelConfigs == {PlanningConfig, [provider |-> "openai", model_name |-> "gpt-3.5-turbo", temperature |-> 20]}

(* The keyword arguments of a model a caller has made itself, and those of *)
(* the fallback OpenAIModel(model_name="gpt-4").                           *)
CallerMade == [model_name |-> "custom"]
FallbackArgs == [model_name |-> "gpt-4"]

Builds == {"built", "fallback", "raises"}

Router == [models |-> models, cache |-> _model_cache,
           task_model_mappings |-> task_model_mappings,
           default_model |-> default_model, made |-> models_made]

(* kwargs = config.copy(); kwargs.pop("provider", None).                   *)
KwargsOf(config) == [k \in DOMAIN config \ {"provider"} |-> config[k]]

_create_model_from_config(r, config, how) ==
    IF how = "raises" THEN [store |-> r, raised |-> TRUE]
    ELSE [store |-> [r EXCEPT !.made = r.made + 1], raised |-> FALSE,
          value |-> [id |-> r.made + 1,
                     kwargs |-> IF how = "built" THEN KwargsOf(config) ELSE FallbackArgs]]

get_default_model(r, how) ==
    IF r.default_model # None
    THEN [store |-> r, raised |-> FALSE, value |-> r.default_model]
    ELSE LET created == _create_model_from_config(r, DefaultModelConfig, how)
         IN  IF created.raised THEN created
             ELSE [store |-> [created.store EXCEPT !.default_model = created.value],
                   raised |-> FALSE, value |-> created.value]

(* register_model(name, model).                                            *)
register_model(r, name, model) == [r EXCEPT !.models = DictPut(@, name, model)]

(* get_model(name) for a name given as a string.                           *)
get_model(r, name, how) ==
    IF name \in DOMAIN r.cache
    THEN [store |-> r, raised |-> FALSE, value |-> r.cache[name]]
    ELSE IF name \in DOMAIN r.models
    THEN [store |-> [r EXCEPT !.cache = DictPut(@, name, r.models[name])],
          raised |-> FALSE, value |-> r.models[name]]
    ELSE IF name \in DOMAIN r.task_model_mappings
    THEN LET created == _create_model_from_config(r, r.task_model_mappings[name], how)
         IN  IF created.raised THEN created
             ELSE [store |-> [created.store EXCEPT !.cache = DictPut(@, name, created.value)],
                   raised |-> FALSE, value |-> created.value]
    ELSE get_default_model(r, how)

(* set_task_model_mapping(task_type, model_config).                        *)
set_task_model_mapping(r, task_type, model_config) ==
    [r EXCEPT !.task_model_mappings = DictPut(@, task_type, model_config),
              !.cache = DictDel(@, task_type)]

SetRouter(r) ==
    /\ models' = r.models
    /\ _model_cache' = r.cache
    /\ task_model_mappings' = r.task_model_mappings
    /\ default_model' = r.default_model
    /\ models_made' = r.made

(* ModelRouter(): of the task types of __init__ the model keeps planning.  *)
ModelsInit ==
    /\ models = EmptyDict
    /\ _model_cache = EmptyDict
    /\ task_model_mappings = [k \in {"planning"} |-> PlanningConfig]
    /\ default_model = None
    /\ models_made = 0

(* Whether get_model(name) reaches a constructor.                          *)
BuildsOf(r, name) ==
    IF \/ name \in DOMAIN r.cache
       \/ name \in DOMAIN r.models
       \/ name \notin DOMAIN r.task_model_mappings /\ r.default_model # None
    THEN {"built"}
    ELSE Builds

(* A caller makes a model and registers it.                                *)
RegisterModel ==
    /\ models_made < MaxModels
    /\ \E name \in ModelNames :
          SetRouter(register_model([Router EXCEPT !.made = models_made + 1], name,
                                   [id |-> models_made + 1, kwargs |-> CallerMade]))

SetTaskModelMapping ==
    \E task_type \in ModelNames, model_config \in ModelConfigs :
        SetRouter(set_task_model_mapping(Router, task_type, model_config))

GetModel ==
    \E name \in ModelNames :
        \E how \in BuildsOf(Router, name) :
            LET call == get_model(Router, name, how)
            IN  /\ call.store.made <= MaxModels
                /\ SetRouter(call.store)

(***************************************************************************)
(* The specifications: one per subsystem, the others left as constructed.  *)
(***************************************************************************)
vars == <<stmVars, routeVars, agentVars, hybridVars, tcVars, ltmVars, planVars, mrVars>>

InitSTM == StmInit /\ RouteInit /\ AgentIdle /\ HybridIdle /\ ToolsInit /\ LtmIdle /\ PlanIdle /\ ModelsInit
NextSTM ==
    \/ Tick /\ UNCHANGED <<routeVars, agentVars, hybridVars, tcVars, ltmVars, planVars, mrVars>>
    \/ Add /\ UNCHANGED <<routeVars, agentVars, hybridVars, tcVars, ltmVars, planVars, mrVars>>
    \/ Get /\ UNCHANGED <<routeVars, agentVars, hybridVars, tcVars, ltmVars, planVars, mrVars>>
    \/ Search /\ UNCHANGED <<routeVars, agentVars, hybridVars, tcVars, ltmVars, planVars, mrVars>>
    \/ Update /\ UNCHANGED <<routeVars, agentVars, hybridVars, tcVars, ltmVars, planVars, mrVars>>
    \/ Delete /\ UNCHANGED <<routeVars, agentVars, hybridVars, tcVars, ltmVars, planVars, mrVars>>
    \/ Clear /\ UNCHANGED <<routeVars, agentVars, hybridVars, tcVars, ltmVars, planVars, mrVars>>
SpecSTM == InitSTM /\ [][NextSTM]_vars

InitRoute == RouteInit /\ StmIdle /\ AgentIdle /\ HybridIdle /\ ToolsInit /\ LtmIdle /\ PlanIdle /\ ModelsInit
NextRoute ==
    \/ LoadTool /\ UNCHANGED <<stmVars, agentVars, hybridVars, tcVars, ltmVars, planVars, mrVars>>
    \/ SetTask /\ UNCHANGED <<stmVars, agentVars, hybridVars, tcVars, ltmVars, planVars, mrVars>>
    \/ Decide /\ UNCHANGED <<stmVars, agentVars, hybridVars, tcVars, ltmVars, planVars, mrVars>>
SpecRoute == InitRoute /\ [][NextRoute]_vars

InitAgent == AgentInit /\ RouteInit /\ StmIdle /\ HybridIdle /\ ToolsInit /\ LtmIdle /\ PlanIdle /\ ModelsInit
NextAgent ==
    \/ AgentLoadTool /\ UNCHANGED <<stmVars, hybridVars, tcVars, ltmVars, planVars, mrVars>>
    \/ Execute /\ UNCHANGED <<stmVars, hybridVars, tcVars, ltmVars, planVars, mrVars>>
    \/ Iterate /\ UNCHANGED <<stmVars, hybridVars, tcVars, ltmVars, planVars, mrVars>>
    \/ Finish /\ UNCHANGED <<stmVars, hybridVars, tcVars, ltmVars, planVars, mrVars>>
SpecAgent == InitAgent /\ [][NextAgent]_vars

InitTools == ToolsInit /\ StmIdle /\ RouteInit /\ AgentIdle /\ HybridIdle /\ LtmIdle /\ PlanIdle /\ ModelsInit
NextTools ==
    \/ RegisterTool /\ UNCHANGED <<stmVars, routeVars, agentVars, hybridVars, ltmVars, planVars, mrVars>>
    \/ RegisterToolClass /\ UNCHANGED <<stmVars, routeVars, agentVars, hybridVars, ltmVars, planVars, mrVars>>
    \/ GetTool /\ UNCHANGED <<stmVars, routeVars, agentVars, hybridVars, ltmVars, planVars, mrVars>>
    \/ ExecuteTool /\ UNCHANGED <<stmVars, routeVars, agentVars, hybridVars, ltmVars, planVars, mrVars>>
SpecTools == InitTools /\ [][NextTools]_vars

InitHybrid ==
    /\ HybridInit
    /\ \E n \in 1..MaxHybridIterations : AgentConstructed(n, FALSE)
    /\ RouteInit
    /\ StmIdle
    /\ ToolsInit
    /\ LtmIdle /\ PlanIdle /\ ModelsInit
NextHybrid ==
    \/ HybridLoadTool /\ UNCHANGED <<stmVars, tcVars, ltmVars, planVars, mrVars>>
    \/ AddSpecializedAgent /\ UNCHANGED <<stmVars, tcVars, ltmVars, planVars, mrVars>>
    \/ HybridExecute /\ UNCHANGED <<stmVars, tcVars, ltmVars, planVars, mrVars>>
    \/ MultiAgent /\ UNCHANGED <<stmVars, tcVars, ltmVars, planVars, mrVars>>
    \/ Iterate /\ UNCHANGED <<stmVars, hybridVars, tcVars, ltmVars, planVars, mrVars>>
    \/ Finish /\ UNCHANGED <<stmVars, hybridVars, tcVars, ltmVars, planVars, mrVars>>
SpecHybrid == InitHybrid /\ [][NextHybrid]_vars

InitLTM ==
    LtmInit /\ StmIdle /\ RouteInit /\ AgentIdle /\ HybridIdle /\ ToolsInit /\ PlanIdle /\ ModelsInit
NextLTM ==
    \/ LtmTick /\ UNCHANGED <<routeVars, agentVars, hybridVars, tcVars, planVars, mrVars>>
    \/ LtmAdd /\ UNCHANGED <<stmVars, routeVars, agentVars, hybridVars, tcVars, planVars, mrVars>>
    \/ LtmUpdate /\ UNCHANGED <<stmVars, routeVars, agentVars, hybridVars, tcVars, planVars, mrVars>>
    \/ LtmDelete /\ UNCHANGED <<stmVars, routeVars, agentVars, hybridVars, tcVars, planVars, mrVars>>
    \/ LtmClear /\ UNCHANGED <<stmVars, routeVars, agentVars, hybridVars, tcVars, planVars, mrVars>>
    \/ LtmSearch /\ UNCHANGED <<stmVars, routeVars, agentVars, hybridVars, tcVars, planVars, mrVars>>
    \/ Reopen /\ UNCHANGED <<stmVars, routeVars, agentVars, hybridVars, tcVars, planVars, mrVars>>
SpecLTM == InitLTM /\ [][NextLTM]_vars

InitValidate ==
    ValidateInit /\ StmIdle /\ RouteInit /\ AgentIdle /\ HybridIdle /\ ToolsInit /\ LtmIdle /\ ModelsInit
NextValidate ==
    \/ WriteStep /\ UNCHANGED <<stmVars, routeVars, agentVars, hybridVars, tcVars, ltmVars, mrVars>>
    \/ ValidatePlan /\ UNCHANGED <<stmVars, routeVars, agentVars, hybridVars, tcVars, ltmVars, mrVars>>
SpecValidate == InitValidate /\ [][NextValidate]_vars

InitPlan ==
    PlanIdle /\ StmIdle /\ RouteInit /\ AgentIdle /\ HybridIdle /\ ToolsInit /\ LtmIdle /\ ModelsInit

NextPlan ==
    \/ CreatePlan /\ UNCHANGED <<stmVars, routeVars, agentVars, hybridVars, tcVars, ltmVars, mrVars>>
    \/ Replan /\ UNCHANGED <<stmVars, routeVars, agentVars, hybridVars, tcVars, ltmVars, mrVars>>
    \/ GetNextStep /\ UNCHANGED <<stmVars, routeVars, agentVars, hybridVars, tcVars, ltmVars, mrVars>>
    \/ MarkStepComplete /\ UNCHANGED <<stmVars, routeVars, agentVars, hybridVars, tcVars, ltmVars, mrVars>>

SpecPlan == InitPlan /\ [][NextPlan]_vars

InitModels ==
    ModelsInit /\ StmIdle /\ RouteInit /\ AgentIdle /\ HybridIdle /\ ToolsInit /\ LtmIdle /\ PlanIdle
NextModels ==
    \/ RegisterModel /\ UNCHANGED <<stmVars, routeVars, agentVars, hybridVars, tcVars, ltmVars, planVars>>
    \/ SetTaskModelMapping /\ UNCHANGED <<stmVars, routeVars, agentVars, hybridVars, tcVars, ltmVars, planVars>>
    \/ GetModel /\ UNCHANGED <<stmVars, routeVars, agentVars, hybridVars, tcVars, ltmVars, planVars>>
SpecModels == InitModels /\ [][NextModels]_vars

InitRun ==
    RunInit /\ StmIdle /\ RouteInit /\ AgentIdle /\ HybridIdle /\ ToolsInit /\ LtmIdle /\ ModelsInit
NextRun ==
    \/ RunNextStep /\ UNCHANGED <<stmVars, routeVars, agentVars, hybridVars, tcVars, ltmVars, mrVars>>
    \/ RunCompleteStep /\ UNCHANGED <<stmVars, routeVars, agentVars, hybridVars, tcVars, ltmVars, mrVars>>
SpecRun == InitRun /\ [][NextRun]_vars

(* The caller goes on as long as it can.                                   *)
SpecRunFair == SpecRun /\ WF_vars(NextRun)


(***************************************************************************)
(* Claims about ShortTermMemory, checked under SpecSTM.  A claim about a   *)
(* call is stated of every call that can be made in a reachable state.     *)
(***************************************************************************)

\* What a call add(item) in the current state takes out of the store: the
\* identifiers held before the call or inserted by it that it does not leave.
AddRemoves(item, first) ==
    (Keys(items) \cup {add(Store, item, first, now).value})
        \ Keys(add(Store, item, first, now).store.items)

\* C1: after every call the store holds at most capacity items, and an add that
\* pushes the size over capacity removes exactly one entry.
C1_CapacityInvariant ==
    /\ Len(items) <= capacity
    /\ \A item \in Items :
         \A first \in Firsts(add(Store, item, 0, now).inserted.lru_queue) :
           LET r == add(Store, item, first, now)
           IN  /\ Len(r.store.items) <= capacity
               /\ r.over => Cardinality(AddRemoves(item, first)) = 1

\* C1 witness: an add has evicted an entry and the store is full.
C1_Witness == evicted # {} /\ Len(items) = capacity

\* C2 (as claimed): the entry an add over capacity removes has the smallest
\* recorded access timestamp of the live entries.
C2_EvictsLeastRecentlyAccessed ==
    \A item \in Items :
      \A first \in Firsts(add(Store, item, 0, now).inserted.lru_queue) :
        LET r == add(Store, item, first, now)
        IN  r.over =>
              \A e \in Keys(r.inserted.items) \ Keys(r.store.items) :
                \A o \in Keys(r.inserted.items) :
                  r.inserted.access_times[e] <= r.inserted.access_times[o]

\* C3: an item added at born[id] and neither deleted nor evicted is returned by
\* get(id) exactly while now - born[id] <= ttl, whatever get, search or update
\* calls touched it in between.
C3_TtlFromCreation ==
    \A identifier \in DOMAIN born :
      (get(Store, identifier, now).value # None) <=> (now - born[identifier] <= ttl)

\* C3 witness: an entry read or updated within the last ttl seconds, older than
\* ttl, which get does not return.
C3_Witness ==
    \E identifier \in Keys(items) :
      /\ identifier \in DOMAIN born
      /\ now - creation_times[identifier] > ttl
      /\ now - access_times[identifier] <= ttl
      /\ get(Store, identifier, now).value = None

(***************************************************************************)
(* Claims about the agent loop, checked under SpecAgent.                   *)
(***************************************************************************)

\* C4: for any max_iterations = N, N = 0 included, and any _should_terminate
\* predicate, execute performs at most N iterations and returns a result
\* whose iterations field is at most N.
C4_IterationsWithinCap ==
    /\ Len(observations) <= max_iterations
    /\ pc = "done" => result.iterations <= max_iterations

\* The positions of the observations that carry status success and a result.
SuccessWithResult(obs) ==
    {i \in 1..Len(obs) : Has(obs[i], "status") /\ obs[i].status = "success" /\ Has(obs[i], "result")}
FirstOf(S) == CHOOSE i \in S : \A j \in S : i <= j

\* C5: the final answer is made from the result of the first observation
\* that carries status success and a result, and it is the generic message
\* only if no observation carries status success and a result.
C5_AnswerFromFirstSuccess ==
    pc = "done" =>
        LET S == SuccessWithResult(observations)
        IN  IF S = {} THEN result.answer = GenericAnswer
            ELSE /\ result.answer # GenericAnswer
                 /\ result.answer \in {[type |-> "str", of |-> observations[FirstOf(S)].result],
                                       StrOfResult(observations[FirstOf(S)].result)}

\* C6: in ToolAgent.execute an iteration whose tool raises, or whose action
\* names a tool that is neither loaded nor loadable, still appends an
\* observation with status error; execute does not raise; and the loop
\* performs the remaining iterations up to the cap.
C6_FailedIterationGoesOn ==
    ~custom =>
        /\ pc # "raised"
        /\ Len(outcomes) = Len(observations)
        /\ \A i \in 1..Len(outcomes) :
             outcomes[i] \in {"raised", "unknown"} => observations[i].status = "error"
        /\ pc = "loop" => Len(observations) = current_iteration
        /\ pc \in {"break", "done"} => Len(observations) = max_iterations
C6_Witness ==
    /\ ~custom
    /\ pc = "done"
    /\ Len(observations) = max_iterations
    /\ \E i \in 1..Len(outcomes) : i < Len(outcomes) /\ outcomes[i] = "raised"

(***************************************************************************)
(* Claims about the routing of ToolAgent._decide_action, checked under     *)
(* SpecRoute.                                                              *)
(***************************************************************************)

\* The order of the rules as the claims state it.
StatedOrder == <<"calculator", "search", "text", "code", "api_endpoint", "react_component">>
\* The positions in StatedOrder of the rules that read the task text t, and
\* of those whose tool is in tls as well.
Matching(t) == {n \in 1..Len(StatedOrder) : RuleMatch(StatedOrder[n], t).matched}
MatchingLoaded(t, tls) == {n \in Matching(t) : StatedOrder[n] \in tls}
Placeholder(t) == [name |-> "dummy_action", input |-> dummy_action(t).input]

SameIgnoringCase(a, b) ==
    /\ Len(a) = Len(b)
    /\ \A k \in 1..Len(a) : LowerWord(a[k]) = LowerWord(b[k])
CalculatorExample == [name |-> "calculator", input |-> [expression |-> <<"2+2">>]]
SearchExample == [name |-> "search", input |-> [query |-> <<"foo">>]]

C7_ExecuteToolNeverRaises ==
    \A name \in CollectionNames, validate \in Validations, outcome \in ToolOutcomes :
      \A how \in ResolutionsOf(Collection, name) :
        LET tool == get_tool(Collection, name, how).value
            r == execute_tool(Collection, name, how, validate, outcome)
            checks == tool # None /\ tool.validates
        IN  /\ ~r.propagated
            /\ r.value # None
            /\ tool = None => r.value.status = "error" /\ ~r.executed
            /\ (checks /\ validate = "false") => r.value.status = "error" /\ ~r.executed
            /\ (checks /\ validate = "raises") => r.value.status = "error" /\ ~r.executed
            /\ (tool # None /\ (checks => validate = "true")) =>
                 /\ r.executed
                 /\ outcome.raises => r.value.status = "error"
                 /\ (~outcome.raises /\ Has(outcome.value, "status")) => r.value = outcome.value
                 /\ (~outcome.raises /\ ~Has(outcome.value, "status")) =>
                      r.value = [type |-> "dict", status |-> "success", result |-> outcome.value]
C7_Witness ==
    /\ last_call.called
    /\ last_call.validate = "raises"
    /\ ~last_call.executed
    /\ ~last_call.propagated
    /\ last_call.value.status = "error"

(***************************************************************************)
(* Claims about HybridAgent, checked under SpecHybrid.                     *)
(***************************************************************************)

\* C10: in mode auto execute computes a score that depends on the task
\* only and is at most 10.0, and it runs the loop of the agent itself if and
\* only if the score is below complexity_threshold, the multi-agent path if
\* it is at or above; mode single always runs the loop and mode multi always
\* the multi-agent path; a mode given to a call is the mode of that call
\* and leaves the configured mode as it was.
C10_ModeDispatch ==
    dispatch.called =>
        LET m == IF dispatch.kw = NoMode THEN dispatch.configured ELSE dispatch.kw
        IN  /\ mode = dispatch.configured
            /\ m = "auto" =>
                 /\ dispatch.score = Scores[dispatch.task]
                 /\ dispatch.score <= 1000
                 /\ dispatch.path = "single" <=> dispatch.score < complexity_threshold
                 /\ dispatch.path = "multi" <=> dispatch.score >= complexity_threshold
            /\ m = "single" => dispatch.path = "single"
            /\ m = "multi" => dispatch.path = "multi"
            /\ dispatch.path = "single" => pc \in {"loop", "break", "done"} /\ ran = <<>>
            /\ (dispatch.path = "single" /\ pc = "done") => Has(result, "iterations")
            /\ dispatch.path = "multi" => pc \in {"multi", "done", "raised"}
            /\ (dispatch.path = "multi" /\ pc = "done") => result.mode \in {"direct", "multi"}
C10_Witness ==
    /\ dispatch.called
    /\ dispatch.kw = NoMode
    /\ mode = "auto"
    /\ dispatch.score = complexity_threshold
    /\ dispatch.path = "multi"
    /\ pc = "done"

\* The roles in the order the claims state.
StatedRoles == <<"researcher", "planner", "executor", "critic">>

\* C11: a multi-agent execution that does not take the direct path of a
\* calculation runs the four role agents once each in the order researcher,
\* planner, executor, critic; each but the first is given the answer of the
\* one before; the answer returned is that of the executor and
\* agent_results holds the results of the four.
C11_RolesOnceInOrder ==
    (dispatch.called /\ dispatch.path = "multi" /\ pc \in {"done", "raised"}
     /\ ~(pc = "done" /\ result.mode = "direct")) =>
        /\ pc = "done"
        /\ [k \in 1..Len(ran) |-> ran[k].role] = StatedRoles
        /\ \A k \in 2..Len(ran) : ran[k].prompt.given = ran[k - 1].answer
        /\ result.answer = ran[3].answer
        /\ DOMAIN result.agent_results = {"researcher", "planner", "executor", "critic"}
        /\ \A k \in 1..Len(ran) : result.agent_results[ran[k].role] = ran[k]

(***************************************************************************)
(* The durable store (LongTermMemory).                                     *)
(***************************************************************************)
MetaKeys == {"id", "created_at", "updated_at", "project", "category"}

(* The write of the call reaches the file, or the item is served from the  *)
(* in-memory index.                                                        *)
Kept(wrote) == index_in_memory \/ wrote = "written"

Listed(buckets) ==
    UNION {{buckets[key][i] : i \in 1..Len(buckets[key])} : key \in DOMAIN buckets}

\* C13: whatever calls were made, failed file writes and removals included,
\* every identifier in the main index, in a project bucket or in a category
\* bucket has a file in the storage directory.
C13_IndexedIdsHaveFiles ==
    (DOMAIN index \cup Listed(project_index) \cup Listed(category_index))
        \subseteq DOMAIN files

IdsOf(buckets, key) ==
    {DictGet(buckets, key, <<>>)[i] : i \in 1..Len(DictGet(buckets, key, <<>>))}

SameBuckets(live, rebuilt) ==
    \A key \in DOMAIN live \cup DOMAIN rebuilt : IdsOf(live, key) = IdsOf(rebuilt, key)

\* C14: while no write and no removal has failed, the in-memory indexes are
\* what _load_index rebuilds from the directory, in whatever order it lists
\* the files: the same main index and the same identifiers in every project
\* bucket and in every category bucket.
C14_IndexesDerivableFromDisk ==
    (index_in_memory /\ ~faulted) =>
        \A listing \in Listings(files) :
            LET rebuilt == _load_index(LtmStore, listing)
            IN  /\ rebuilt.index = index
                /\ SameBuckets(project_index, rebuilt.project_index)
                /\ SameBuckets(category_index, rebuilt.category_index)

(* The buckets of one index that list the identifier.                      *)
BucketsOf(buckets, identifier) ==
    {key \in DOMAIN buckets : InList(buckets[key], identifier)}

\* C15: an update that changes the project (the category) of an item leaves
\* its identifier in the new project (category) bucket and in no other bucket
\* of that index, and leaves no empty bucket behind: the names that
\* get_all_projects and get_all_categories return all have an identifier.
C15_UpdateMovesBetweenBuckets ==
    index_in_memory =>
        \A identifier \in Known, item \in LtmItems, wrote \in WriteOutcomes :
            LET before == ltm_get(LtmStore, identifier)
                call == ltm_update(LtmStore, identifier, item, wrote)
                after == ltm_get(call.store, identifier)
            IN  call.value =>
                  /\ after["_meta"].project # before["_meta"].project =>
                        /\ BucketsOf(call.store.project_index, identifier)
                               = {after["_meta"].project}
                        /\ \A key \in get_all_projects(call.store) :
                               key \in DOMAIN project_index
                                   /\ project_index[key] # <<>>
                                   => call.store.project_index[key] # <<>>
                  /\ after["_meta"].category # before["_meta"].category =>
                        /\ BucketsOf(call.store.category_index, identifier)
                               = {after["_meta"].category}
                        /\ \A key \in get_all_categories(call.store) :
                               key \in DOMAIN category_index
                                   /\ category_index[key] # <<>>
                                   => call.store.category_index[key] # <<>>

ElementsOf(list) == {list[k] : k \in 1..Len(list)}

(* The steps that step i names as its dependencies.                        *)
DependsOn(steps, i) ==
    {j \in 1..Len(steps) :
        /\ "id" \in DOMAIN steps[j]
        /\ steps[j].id \in ElementsOf(DependenciesOf(steps[i]).list)}

RECURSIVE Closure(_, _)
Closure(steps, reached) ==
    LET more == reached \cup UNION {DependsOn(steps, j) : j \in reached}
    IN  IF more = reached THEN reached ELSE Closure(steps, more)

(* The steps that step i depends on, directly or through other steps.      *)
DependsOnTransitively(steps, i) == Closure(steps, DependsOn(steps, i))

Cyclic(steps) == \E i \in 1..Len(steps) : i \in DependsOnTransitively(steps, i)

CircularErrors(errors) ==
    {errors[k].step : k \in {n \in 1..Len(errors) : errors[n].error = "circular dependency"}}

\* C17: validate_plan returns (the cycle check ends) on every plan; it reports
\* a circular dependency exactly for the plans in which some step depends on
\* itself directly or through other steps, and in such a plan it reports one
\* for every step that does; a plan without such a step, a diamond included,
\* gets no circular-dependency error.
C17_CircularDependenciesReported ==
    validation # NoCall =>
        LET steps == checked_plan.steps.list
            reported == CircularErrors(validation.errors)
        IN  /\ ~validation.raised
            /\ (reported # {}) <=> Cyclic(steps)
            /\ \A i \in 1..Len(steps) :
                  i \in DependsOnTransitively(steps, i) => i \in reported

(* A validated plan with a cycle through two steps, flagged for both.      *)
C17_Witness ==
    /\ validation # NoCall
    /\ \E i, j \in 1..Len(checked_plan.steps.list) :
          /\ i # j
          /\ j \in DependsOn(checked_plan.steps.list, i)
          /\ i \in DependsOn(checked_plan.steps.list, j)
          /\ {i, j} \subseteq CircularErrors(validation.errors)
PlanFields == {"status", "steps", "completed_steps", "current_step_index", "validation_errors"}

IsPlan(q) == PlanFields \subseteq DOMAIN q

IdsIn(steps) == {DictGet(steps[j], "id", NoId) : j \in 1..Len(steps)} \ {NoId}

DistinctIds(steps) ==
    \A i, j \in 1..Len(steps) : ("id" \in DOMAIN steps[i] /\ (i # j => steps[i].id # steps[j].id))

ListedDependencies(steps) == \A i \in 1..Len(steps) : IsList(DependenciesOf(steps[i]))

(* Every structural problem of the plan's steps has its entry in the        *)
(* plan's validation_errors.                                                *)
Collected(q) ==
    LET steps == q.steps
        errors == ElementsOf(q.validation_errors)
    IN  \A i \in 1..Len(steps) :
          IF steps[i] = None
          THEN [error |-> "must be a dictionary", step |-> i] \in errors
          ELSE IF ~IsList(DependenciesOf(steps[i]))
          THEN [error |-> "dependencies must be a list", step |-> i] \in errors
          ELSE
          /\ \A field \in {"id", "description"} :
                field \notin DOMAIN steps[i] =>
                    [error |-> "Step missing required field", field |-> field] \in errors
          /\ \A dep \in ElementsOf(DependenciesOf(steps[i]).list) :
                dep \notin IdsIn(steps) =>
                    [error |-> "dependency on non-existent step", step |-> i, dep |-> dep]
                        \in errors
          /\ (/\ DistinctIds(steps)
              /\ ListedDependencies(steps)
              /\ i \in DependsOnTransitively(steps, i)) =>
                [error |-> "circular dependency", step |-> i] \in errors

CreatePlanReturns ==
    \A output \in ModelOutputs :
        LET returned == create_plan(output)
        IN  /\ ~returned.raised
            /\ IsPlan(returned.plan)
            /\ Collected(returned.plan)
            /\ output.raises => returned.plan.status = "error"

ReplanReturns(p) ==
    \A output \in ModelOutputs :
        LET returned == replan(p, output)
        IN  /\ ~returned.raised
            /\ IsPlan(returned.plan)
            /\ Collected(returned.plan)
            /\ output.raises =>
                  /\ returned.plan.status = "error"
                  /\ returned.plan.steps = p.steps
                  /\ returned.plan.completed_steps = p.completed_steps

\* C18: whatever the model call does (raise, return a value that is no dict,
\* a dict without steps, or steps with missing fields, dangling or circular
\* dependencies), create_plan and replan return a plan and do not raise; every
\* missing field, dependency on a non-existent step id and circular dependency
\* of the returned plan's steps has its entry in validation_errors; when the
\* model call raises the plan has status error, and replan then returns the
\* original steps and completed_steps.
C18_StructuralProblemsNeverRaise ==
    /\ CreatePlanReturns
    /\ plan # NoPlan => (IsPlan(plan) /\ Collected(plan) /\ ReplanReturns(plan))

HasId(steps, step_id) ==
    \E i \in 1..Len(steps) : "id" \in DOMAIN steps[i] /\ steps[i].id = step_id

\* C19: mark_step_complete for a step_id that a step of the plan has returns a
\* plan in which that step is no longer in steps and is the last entry of
\* completed_steps, with the result, and in which current_step_index is one
\* more than before; for a step_id no step has it returns the plan as it was;
\* the returned status is completed exactly when current_step_index >=
\* len(steps).
C19_MarkStepCompleteMovesStep ==
    plan # NoPlan =>
        \A step_id \in StepIds :
            LET returned == mark_step_complete(plan, step_id, "ok")
                q == returned.plan
            IN  ~returned.raised =>
                    IF HasId(plan.steps, step_id)
                    THEN /\ ~HasId(q.steps, step_id)
                         /\ Len(q.completed_steps) = Len(plan.completed_steps) + 1
                         /\ q.completed_steps[Len(q.completed_steps)].id = step_id
                         /\ q.completed_steps[Len(q.completed_steps)].result = "ok"
                         /\ q.current_step_index = plan.current_step_index + 1
                         /\ q.status = "completed" <=> q.current_step_index >= Len(q.steps)
                    ELSE q = plan

\* C20: a replan that succeeds (status updated) keeps completed_steps as they
\* were, makes steps the completed steps followed by the model's new steps,
\* and sets current_step_index to the number of completed steps, so that
\* get_next_step on the returned plan does not hand out a completed step,
\* also when the model returned no new step.
C20_ReplanKeepsCompletedSteps ==
    plan # NoPlan =>
        \A output \in ModelOutputs :
            LET returned == replan(plan, output)
                q == returned.plan
                done == Len(plan.completed_steps)
                next == get_next_step(q)
            IN  (~returned.raised /\ q.status = "updated") =>
                    /\ q.completed_steps = plan.completed_steps
                    /\ Len(q.steps) >= done
                    /\ SubSeq(q.steps, 1, done) = plan.completed_steps
                    /\ SubSeq(q.steps, done + 1, Len(q.steps))
                           = DictGet(output.value, "steps", ListOf(<<>>)).list
                    /\ q.current_step_index = done
                    /\ ~next.raised => next.step \notin ElementsOf(q.completed_steps)
(***************************************************************************)
(* Further claims about ShortTermMemory, checked under SpecSTM.            *)
(***************************************************************************)

\* The entries of store s whose age at clock value t is at most ttl.
Unexpired(s, t) == {i \in Keys(s.items) : t - s.creation_times[i] <= ttl}

SeqElements(r) == {r[k] : k \in 1..Len(r)}

\* C21: every operation purges expired entries before it acts, so that none
\* observes an entry older than ttl: get, update and delete of an entry that
\* has expired and is still in the store return nothing / false, search does
\* not return it, get_stats does not count it in current_size, and add, get,
\* search and update leave no expired entry in the store.
C21_EveryOperationPurgesFirst ==
    LET old == Keys(items) \ Unexpired(Store, now)
    IN  /\ \A identifier \in old :
              /\ get(Store, identifier, now).value = None
              /\ \A item \in Items : update(Store, identifier, item, now).value = FALSE
              /\ delete(Store, identifier).value = FALSE
        /\ \A q \in Queries, limit \in 0..MaxLimit :
              /\ SeqElements(search(Store, q, limit, now).value) \cap old = {}
              /\ Keys(search(Store, q, limit, now).store.items) \cap old = {}
        /\ \A item \in Items : Keys(add(Store, item, 0, now).store.items) \cap old = {}
        /\ get_stats(Store).current_size = Cardinality(Unexpired(Store, now))

\* C22: search(query, limit) returns only unexpired items that have every
\* field of the query with an equal value, at most limit of them, ordered by
\* creation time, newest first.
C22_SearchMatchesLimitOrder ==
    \A q \in Queries, limit \in 0..MaxLimit :
        LET found == search(Store, q, limit, now).value
        IN  /\ \A k \in 1..Len(found) :
                  /\ found[k] \in Unexpired(Store, now)
                  /\ \A key \in QueryFields(q) :
                        /\ key \in DOMAIN ItemOf(items, found[k])
                        /\ ItemOf(items, found[k])[key] = QueryValue(q)
            /\ Len(found) <= limit
            /\ \A k, n \in 1..Len(found) :
                  k < n => creation_times[found[k]] >= creation_times[found[n]]

\* C29: when the entry an add over capacity evicts has the same recorded
\* timestamp as another live entry, it is the one inserted earlier; the add
\* does not evict the entry it has just inserted while an older one exists.
C29_TiesBrokenByInsertionOrder ==
    \A item \in Items :
      \A first \in Firsts(add(Store, item, 0, now).inserted.lru_queue) :
        LET r == add(Store, item, first, now)
            held == r.inserted.items
        IN  r.over =>
              \A e \in Keys(held) \ Keys(r.store.items) :
                /\ \A o \in Keys(held) :
                      r.inserted.creation_times[e] = r.inserted.creation_times[o]
                          => Lookup(held, e) <= Lookup(held, o)
                /\ Len(held) > 1 => e # r.value
(***************************************************************************)
(* Further claims about the agent loop, checked under SpecAgent.           *)
(***************************************************************************)

\* C23: the context execute returns holds one thought, one action and one
\* observation per iteration performed: the three lists have the same
\* length, and that length is the iterations field of the result, for every
\* max_iterations and every termination predicate.
C23_ContextKeepsEveryIteration ==
    pc = "done" =>
        /\ Len(thoughts) = Len(actions)
        /\ Len(actions) = Len(observations)
        /\ Len(observations) = result.iterations

\* C24: with the _should_terminate of ReactAgent and max_iterations = N >= 1
\* the loop is left only after N iterations, whatever the observations were,
\* and execute returns with N iterations; every execute starts with
\* current_iteration = 0, a later execute on the same agent included, which
\* again performs N iterations.
C24_DefaultPredicateRunsToCap ==
    (~custom /\ max_iterations >= 1) =>
        /\ pc = "loop" => current_iteration = Len(observations)
        /\ pc = "break" => current_iteration = max_iterations - 1
        /\ pc \in {"break", "done"} =>
              /\ Len(observations) = max_iterations
              /\ Len(thoughts) = max_iterations
              /\ Len(actions) = max_iterations
        /\ pc = "done" => result.iterations = max_iterations

\* C24 witness: a later execute on the same agent has returned after two
\* iterations, the first of which had a successful tool result.
C24_Witness ==
    /\ rerun
    /\ ~custom
    /\ pc = "done"
    /\ max_iterations = 2
    /\ Len(observations) = 2
    /\ observations[1].status = "success"
    /\ Has(observations[1], "result")
    /\ result.iterations = 2
(***************************************************************************)
(* Further claims about HybridAgent, checked under SpecHybrid.             *)
(***************************************************************************)

\* The first nine letters of the task text, in lower case, read calculate.
CalculateFirst(tk) ==
    /\ Len(tk) > 0
    /\ Len(tk[1]) >= 9
    /\ SubSeq(LowerWord(tk[1]), 1, 9) = "calculate"

\* The observation has status success and carries a result.
Succeeded(observation) ==
    /\ observation # None
    /\ Has(observation, "status")
    /\ observation.status = "success"
    /\ Has(observation, "result")

C26_RegisteredRolesInEveryOrder ==
    (dispatch.called /\ dispatch.path = "multi" /\ pc \in {"done", "raised"}
     /\ ~(pc = "done" /\ result.mode = "direct")) =>
        /\ pc = "done"
        /\ Range(required_roles) \subseteq DOMAIN specialized_agents
        /\ [k \in 1..Len(ran) |-> ran[k].role] = required_roles
\* A step leaves the agent of every role as it is, but for roles that
\* add_specialized_agent sets in a step between two executions.
RoleAgentsKept ==
    \A role \in DOMAIN specialized_agents :
        /\ role \in DOMAIN specialized_agents'
        /\ \/ specialized_agents'[role] = specialized_agents[role]
           \/ specialized_agents'[role].explicit /\ pc' = pc

\* A step makes a default agent for a role only when it starts a
\* multi-agent execution.
DefaultsMadeByMultiOnly ==
    \A role \in DOMAIN specialized_agents' \ DOMAIN specialized_agents :
        ~specialized_agents'[role].explicit => pc' = "multi"

C28_GetToolCaches ==
    \A name \in CollectionNames :
        \A how \in ResolutionsOf(Collection, name) :
            LET g == get_tool(Collection, name, how)
            IN  g.value # None =>
                    \A again \in ResolutionsOf(g.store, name) :
                        LET h == get_tool(g.store, name, again)
                        IN  /\ h.value = g.value
                            /\ h.store.made = g.store.made
(***************************************************************************)
(* Further claims about TaskPlanner, checked under SpecPlan.               *)
(***************************************************************************)

\* The id is the id of a step of completed_steps.
IsCompletedId(p, id) ==
    \E j \in 1..Len(p.completed_steps) :
        /\ p.completed_steps[j] # None
        /\ "id" \in DOMAIN p.completed_steps[j]
        /\ p.completed_steps[j].id = id

\* The step lists a dependency that is the id of no completed step.
LacksDependency(p, step) ==
    /\ step # None
    /\ "dependencies" \in DOMAIN step
    /\ IsList(step.dependencies)
    /\ \E k \in 1..Len(step.dependencies.list) :
          ~IsCompletedId(p, step.dependencies.list[k])

\* C30: a step that get_next_step returns is a step at or after
\* current_step_index of which no dependency lacks a completed step;
\* get_next_step returns None when current_step_index >= len(steps) and
\* when every step at or after current_step_index lacks a dependency.
C30_NextStepHasDependenciesCompleted ==
    plan # NoPlan =>
        LET r == get_next_step(plan)
            rest == (plan.current_step_index + 1)..Len(plan.steps)
        IN  /\ (~r.raised /\ r.step # None) =>
                   /\ \E i \in rest : plan.steps[i] = r.step
                   /\ ~LacksDependency(plan, r.step)
            /\ plan.current_step_index >= Len(plan.steps) =>
                   r = [raised |-> FALSE, step |-> None]
            /\ (\A i \in rest : LacksDependency(plan, plan.steps[i])) =>
                   r = [raised |-> FALSE, step |-> None]

\* C30 witness: the step at current_step_index lacks a dependency, a later
\* step does not, and get_next_step has returned the later step.
C30_Witness ==
    /\ plan # NoPlan
    /\ plan_call.op = "get_next_step"
    /\ plan_call.returned = get_next_step(plan)
    /\ plan.current_step_index < Len(plan.steps)
    /\ LacksDependency(plan, plan.steps[plan.current_step_index + 1])
    /\ ~plan_call.returned.raised
    /\ plan_call.returned.step # None
    /\ Len(plan.completed_steps) > 0
(***************************************************************************)
(* Further claims about LongTermMemory, checked under SpecLTM.             *)
(***************************************************************************)

\* The identifiers among the results of a search.
IdsFound(call) == {call.value[k].id : k \in 1..Len(call.value)}

\* A limit that no search of the store reaches.
NoLimit(s) == Cardinality(DOMAIN s.index \cup DOMAIN s.files) + 1

\* C31: over the items that the memory with the index has persisted, with
\* no write or removal failed, a search with the index and a search
\* without it, with a limit that cuts nothing, return the same identifiers,
\* for each query, the one with both a project and a category among them.
C31_SearchSameWithAndWithoutIndex ==
    (index_in_memory /\ ~faulted) =>
        \A query \in LtmQueries :
            \A listing \in ListingsOf(LtmStore, TRUE), scan \in ListingsOf(LtmStore, FALSE) :
                LET with == ltm_search(LtmStore, TRUE, query, NoLimit(LtmStore), listing)
                    without == ltm_search(LtmStore, FALSE, query, NoLimit(LtmStore), scan)
                IN  /\ ~with.raised
                    /\ ~without.raised
                    /\ IdsFound(with) = IdsFound(without)
\* The same dict: the same keys with the same values.
SameDict(d, e) == DOMAIN d = DOMAIN e /\ \A k \in DOMAIN d : d[k] = e[k]

\* C37: a search leaves the store, the indexes and the caller's query dict
\* as they were, so that a second search with the same dict returns what
\* the first returned.
C37_SearchIsReadOnly ==
    \A query \in LtmQueries, limit \in 1..MaxLtmLimit :
        \A listing \in ListingsOf(LtmStore, index_in_memory) :
            LET first_call == ltm_search(LtmStore, index_in_memory, query, limit, listing)
                second_call == ltm_search(first_call.store, index_in_memory,
                                          first_call.left, limit, listing)
            IN  /\ first_call.store = LtmStore
                /\ SameDict(first_call.left, query)
                /\ first_call.raised = second_call.raised
                /\ ~first_call.raised =>
                       ResultIds(first_call.value) = ResultIds(second_call.value)
\* Every category bucket of the store holds at most max_items_per_category
\* identifiers.
BucketsWithinCap(s) ==
    \A category \in DOMAIN s.category_index :
        Len(s.category_index[category]) <= max_items_per_category

\* C36: with the index in memory and the buckets within the cap, every add
\* and every update leaves each category bucket with at most
\* max_items_per_category identifiers, an update that moves an item into a
\* full category among them.
C36_BucketsNeverOverCap ==
    (index_in_memory /\ BucketsWithinCap(LtmStore)) =>
        /\ \A item \in LtmItems, wrote \in WriteOutcomes, removed \in BOOLEAN :
              BucketsWithinCap(ltm_add(LtmStore, item, uuids + 1, wrote, removed).store)
        /\ \A identifier \in Known, item \in LtmItems, wrote \in WriteOutcomes :
              BucketsWithinCap(ltm_update(LtmStore, identifier, item, wrote).store)
(***************************************************************************)
(* Claims about the structures of ShortTermMemory, checked under SpecSTM.  *)
(***************************************************************************)

\* The identifiers of the tuples of the queue.
Queued(q) == {q[i][2] : i \in 1..Len(q)}

EvictedBy(call) == Keys(call.inserted.items) \ Keys(call.store.items)

MatchesInOrder(s, q, t) ==
    LET live == SelectSeq(_prune_expired(s, t).items, LAMBDA e : IsMatch(e.item, q))
    IN  [k \in 1..Len(live) |-> live[k].id]

\* C38: when more than limit entries match, search returns the first limit
\* matches in the order of insertion, newest first among themselves.
C38_SearchTruncatesBeforeSort ==
    \A q \in Queries, limit \in 0..MaxLimit :
        LET matches == MatchesInOrder(Store, q, now)
            returned == search(Store, q, limit, now).value
        IN  Len(matches) > limit =>
                /\ SeqElements(returned) = {matches[k] : k \in 1..limit}
                /\ Len(returned) = limit
                /\ \A i, j \in 1..Len(returned) :
                      i < j => creation_times[returned[i]] >= creation_times[returned[j]]
(***************************************************************************)
(* Claims about ModelRouter, checked under SpecModels.                     *)
(***************************************************************************)

\* C39: after every sequence of get_model, register_model and
\* set_task_model_mapping, get_model of a registered name returns the model
\* registered last under it, and get_model of a task type that is no
\* registered name returns a model built from the configuration set last
\* for it, or the fallback model made when the constructor raised.
C39_ResolutionFollowsLatestRegistration ==
    \A name \in ModelNames :
        /\ name \in DOMAIN models =>
               get_model(Router, name, "built").value = models[name]
        /\ (name \in DOMAIN task_model_mappings /\ name \notin DOMAIN models) =>
               get_model(Router, name, "built").value.kwargs
                   \in {KwargsOf(task_model_mappings[name]), FallbackArgs}
(***************************************************************************)
(* Claims about a caller that executes a plan, checked under SpecRun and   *)
(* SpecRunFair.                                                            *)
(***************************************************************************)

\* The step get_next_step has just returned, if it has returned one.
HandedOut ==
    /\ plan_call.op = "get_next_step"
    /\ ~plan_call.returned.raised
    /\ plan_call.returned.step # None

\* C34: in a run that alternates get_next_step and mark_step_complete of
\* the step returned, get_next_step returns no step of which the id is
\* already in completed_steps, and no two entries of completed_steps have
\* the same id.
C34_NoStepHandedOutTwice ==
    /\ HandedOut => ~IsCompletedId(plan, plan_call.returned.step.id)
    /\ \A i, j \in 1..Len(plan.completed_steps) :
          i # j => plan.completed_steps[i].id # plan.completed_steps[j].id

\* The plan is one that validate_plan accepts.
Accepted == plan.status # "error" /\ plan.validation_errors = <<>>

PlanCompleted ==
    plan.status = "completed" /\ plan.current_step_index >= Len(plan.steps)

====
